---- MODULE Spec2Model ----
(***************************************************************************)
(* Model of the generation orchestration pipeline of CodeGen:              *)
(*   backend/main.py        generate_code, generate_fullstack,             *)
(*                          generation_stream, get_generation              *)
(*   backend/groq_client.py classification and the generate_* functions    *)
(*   backend/models.py      GenerationRecord (the mapped columns)          *)
(*   frontend/app.py        determine_generation_types of the client       *)
(*                                                                         *)
(* Texts (prompt, description, generated artifacts) are sequences of       *)
(* tokens; a token is a word, a marker or a literal piece of an f-string.  *)
(* Python's None is the token sequence None for text values, the string    *)
(* "None" for short string values and NoId for the integer primary key.    *)
(***************************************************************************)
EXTENDS Integers, Sequences, FiniteSets, TLC

\* ------------------------------------------------------------------------
\* Values
\* ------------------------------------------------------------------------
None == <<"None">>

NoId == 0

\* The identities of the requests the server may serve.
Runs == {1, 2}

\* The six artifact kinds, in the order of the six if-blocks of generation_stream.
Order == <<"ui_code", "db_schema", "er_diagram", "backend_code", "db_queries", "tech_docs">>

Kinds == {Order[i] : i \in 1..Len(Order)}

Rank(k) == CHOOSE i \in 1..Len(Order) : Order[i] = k

\* A variant of NextKind: the E-R diagram block placed before the schema block.
NextKind_swapped(k) ==
    CASE k = "ui_code" -> "er_diagram"
      [] k = "er_diagram" -> "db_schema"
      [] k = "db_schema" -> "backend_code"
      [] k = "backend_code" -> "db_queries"
      [] k = "db_queries" -> "tech_docs"
      [] OTHER -> "none"

\* The kind whose if-block follows the if-block of kind k ("none": the
\* block of k is the last one, the complete event follows).
NextKind(k) == IF Rank(k) < Len(Order) THEN Order[Rank(k) + 1] ELSE "none"

\* The step name of the progress events of a kind.
StepName(k) ==
    CASE k = "ui_code" -> "UI"
      [] k = "db_schema" -> "DB Schema"
      [] k = "er_diagram" -> "E-R Diagram"
      [] k = "backend_code" -> "Backend"
      [] k = "db_queries" -> "DB Queries"
      [] k = "tech_docs" -> "Documentation"

\* The message prefix of the error event of a kind's except block.
ErrorPrefix(k) ==
    CASE k = "ui_code" -> "UI code generation failed: "
      [] k = "db_schema" -> "DB schema generation failed: "
      [] k = "er_diagram" -> "E-R diagram generation failed: "
      [] k = "backend_code" -> "Backend code generation failed: "
      [] k = "db_queries" -> "DB queries generation failed: "
      [] k = "tech_docs" -> "Documentation generation failed: "

\* The columns of GenerationRecord that the ORM maps, hence the only
\* attributes a commit writes to the generation_records table.
MappedColumns ==
    {"id", "image_path", "prompt", "description", "ui_code", "db_schema",
     "backend_code", "db_queries", "tech_docs", "backend_language", "framework"}

\* Every attribute generation_stream sets on its record object.
RecordAttrs == MappedColumns \cup {"er_diagram", "frontend_framework"}

\* ------------------------------------------------------------------------
\* Texts
\* ------------------------------------------------------------------------
\* str.lower() of a token.
Lower(tok) ==
    CASE tok = "REST" -> "rest"
      [] tok = "API" -> "api"
      [] tok = "Generate" -> "generate"
      [] tok = "JavaScript" -> "javascript"
      [] tok = "Node" -> "node"
      [] tok = "React" -> "react"
      [] tok = "\n\nUser Requirements: " -> "\n\nuser requirements: "
      [] tok = "File content could not be extracted" -> "file content could not be extracted"
      [] OTHER -> tok

\* The classifier keywords that are substrings of a lower-cased token.
KeywordsIn(tok) ==
    CASE tok = "javascript" -> {"javascript", "java", "script"}
      [] tok = "java" -> {"java"}
      [] tok = "node" -> {"node"}
      [] tok = "rest" -> {"rest"}
      [] tok = "api" -> {"api"}
      [] tok = "server" -> {"server"}
      [] tok = "function" -> {"function"}
      [] tok = "prints" -> {"print"}
      [] tok = "react" -> {"react"}
      [] tok = "website" -> {"website", "web"}
      [] tok = "webpage" -> {"webpage", "web"}
      [] tok = "endpoint" -> {"endpoint"}
      [] tok = "interest" -> {"rest"}
      [] tok = "calculate" -> {"calculate"}
      [] tok = "loop" -> {"loop"}
      [] tok = "algorithm" -> {"algorithm"}
      [] tok = "typescript" -> {"script"}
      [] tok = "vue" -> {"vue"}
      [] tok = "angular" -> {"angular"}
      [] tok = "html" -> {"html"}
      [] OTHER -> {}

\* kw in text.lower()
Contains(kw, text) == \E i \in 1..Len(text) : kw \in KeywordsIn(Lower(text[i]))

\* any(kw in text.lower() for kw in kws)
ContainsAny(kws, text) == \E kw \in kws : Contains(kw, text)

\* The prompts a caller sends.
Prompts == {<< >>, <<"REST", " ", "API", " ", "java">>, <<"hello">>}

\* The texts file_to_text returns for a staged file: the text of the file,
\* or the sentinel of its except block.
ExtractionSentinel == <<"File content could not be extracted">>

ExtractedTexts == {<<"website", " ", "react">>, ExtractionSentinel}

\* file_to_text: best effort, the except block turns every failure into the sentinel.
file_to_text(ok, text) == IF ok THEN text ELSE ExtractionSentinel

\* The names of the files generate_code stages, one per run.
StagedFile(r) == IF r = 1 THEN "uploads/a.png" ELSE "uploads/b.png"

\* remove_think_tags: re.sub(r"<think>.*?</think>", "", text, flags=DOTALL).strip()
\* Non-greedy removal, left to right, of every <think> ... </think> segment.
\* A variant of StripThink: an opening marker without a closing one is
\* removed with the rest of the text.
RECURSIVE StripThink_unclosed(_)
StripThink_unclosed(t) ==
    IF t = << >> THEN << >>
    ELSE IF Head(t) = "<think>"
         THEN IF \E j \in 2..Len(t) : t[j] = "</think>"
              THEN LET j == CHOOSE j \in 2..Len(t) :
                                 /\ t[j] = "</think>"
                                 /\ \A i \in 2..(j - 1) : t[i] # "</think>"
                   IN StripThink_unclosed(SubSeq(t, j + 1, Len(t)))
              ELSE << >>
         ELSE <<Head(t)>> \o StripThink_unclosed(Tail(t))

RECURSIVE StripThink(_)
StripThink(t) ==
    IF t = << >> THEN << >>
    ELSE IF Head(t) = "<think>" /\ \E j \in 2..Len(t) : t[j] = "</think>"
         THEN LET j == CHOOSE j \in 2..Len(t) :
                            /\ t[j] = "</think>"
                            /\ \A i \in 2..(j - 1) : t[i] # "</think>"
              IN StripThink(SubSeq(t, j + 1, Len(t)))
         ELSE <<Head(t)>> \o StripThink(Tail(t))

IsSpace(tok) == tok \in {" ", "\n"}

RECURSIVE LStrip(_)
LStrip(t) == IF t # << >> /\ IsSpace(Head(t)) THEN LStrip(Tail(t)) ELSE t

RECURSIVE RStrip(_)
RStrip(t) ==
    IF t # << >> /\ IsSpace(t[Len(t)]) THEN RStrip(SubSeq(t, 1, Len(t) - 1)) ELSE t

\* A Python string has no token boundaries: two adjacent pieces that spell
\* a marker are that marker.
RECURSIVE Join(_)
Join(t) ==
    IF Len(t) < 2 THEN t
    ELSE IF t[1] = "<th" /\ t[2] = "ink>"
    THEN <<"<think>">> \o Join(SubSeq(t, 3, Len(t)))
    ELSE <<Head(t)>> \o Join(Tail(t))

remove_think_tags(t) == RStrip(LStrip(Join(StripThink(Join(t)))))

\* The number of different raw outputs the text-generation call has per kind.
MaxOutputs == 1

\* The raw outputs of the text-generation call for the prompt of a kind:
\* with a reasoning segment, with trailing whitespace, plain.
RawOutput(k, i) ==
    CASE i = 1 -> <<"<think>", "plan", "</think>", "\n", k>>
      [] i = 2 -> <<k, "text", "\n">>
      [] OTHER -> <<k>>

LLMOutputs(k) == {RawOutput(k, i) : i \in 1..MaxOutputs}

\* The causes the text-generation call fails with.
LLMErrors == {"timeout"}

\* The exceptions a database operation raises.
DbErrors == {"OperationalError", "IntegrityError"}

\* ------------------------------------------------------------------------
\* Classification (groq_client.py)
\* ------------------------------------------------------------------------
\* The CodeAnalysis objects the analysis chain yields when the model call
\* succeeds and its output parses.
AnalysisResults ==
    {[language |-> "python", requires_framework |-> FALSE, framework |-> "None",
      frontend_framework |-> "None", code_type |-> "script",
      components_needed |-> {}, ui_type |-> "None"],
     [language |-> "javascript", requires_framework |-> TRUE, framework |-> "express",
      frontend_framework |-> "vue", code_type |-> "web_api",
      components_needed |-> {"ui_code", "er_diagram", "tech_docs"}, ui_type |-> "vue"]}

\* The CodeAnalysis of the except block of analyze_request.
AnalysisFallback ==
    [language |-> "python", requires_framework |-> FALSE, framework |-> "None",
     frontend_framework |-> "None", code_type |-> "simple_function",
     components_needed |-> {"backend_code"}, ui_type |-> "None"]

\* analyze_request: the parsed model output, or the fallback on any exception.
analyze_request(ok, result) == IF ok THEN result ELSE AnalysisFallback

\* The StackDetection objects the stack chain yields when the model call
\* succeeds and its output validates.
StackResults ==
    {[backend_language |-> "java", framework |-> "none",
      use_framework |-> FALSE, frontend_framework |-> "None"]}

\* A variant of detect_frontend_framework: the generic keywords are tested first.
detect_frontend_framework_html_first(description) ==
    IF ContainsAny({"html", "webpage", "website"}, description) THEN "html"
    ELSE IF Contains("react", description) THEN "react"
    ELSE IF Contains("vue", description) THEN "vue"
    ELSE IF Contains("angular", description) THEN "angular"
    ELSE "None"

detect_frontend_framework(description) ==
    IF Contains("react", description) THEN "react"
    ELSE IF Contains("vue", description) THEN "vue"
    ELSE IF Contains("angular", description) THEN "angular"
    ELSE IF ContainsAny({"html", "webpage", "website"}, description) THEN "html"
    ELSE "None"

\* A variant of detect_stack_fallback: "java" is tested before "javascript"
\* and "node".
detect_stack_fallback_java_first(description) ==
    LET is_simple ==
            ContainsAny({"function", "print", "calculate", "loop", "algorithm", "script"},
                        description)
        lang ==
            IF Contains("java", description)
            THEN <<"java", "spring">>
            ELSE IF Contains("node", description)
            THEN <<"javascript", "express">>
            ELSE <<"python", "fastapi">>
        use_framework ==
            ~is_simple
            /\ ContainsAny({"api", "server", "web", "endpoint", "rest"}, description)
    IN [backend_language |-> lang[1], framework |-> lang[2],
        use_framework |-> use_framework]

\* A variant of detect_stack_fallback: the simple indicators do not count.
detect_stack_fallback_api_only(description) ==
    LET lang ==
            IF Contains("javascript", description) \/ Contains("node", description)
            THEN <<"javascript", "express">>
            ELSE IF Contains("java", description) /\ ~Contains("javascript", description)
            THEN <<"java", "spring">>
            ELSE <<"python", "fastapi">>
    IN [backend_language |-> lang[1], framework |-> lang[2],
        use_framework |->
            ContainsAny({"api", "server", "web", "endpoint", "rest"}, description)]

\* A variant of detect_stack_fallback: the simple indicators are matched as
\* whole words of the description.
detect_stack_fallback_whole_words(description) ==
    LET is_simple ==
            \E i \in 1..Len(description) :
                Lower(description[i]) \in
                    {"function", "print", "calculate", "loop", "algorithm", "script"}
        lang ==
            IF Contains("javascript", description) \/ Contains("node", description)
            THEN <<"javascript", "express">>
            ELSE IF Contains("java", description) /\ ~Contains("javascript", description)
            THEN <<"java", "spring">>
            ELSE <<"python", "fastapi">>
        use_framework ==
            ~is_simple
            /\ ContainsAny({"api", "server", "web", "endpoint", "rest"}, description)
    IN [backend_language |-> lang[1], framework |-> lang[2],
        use_framework |-> use_framework]

detect_stack_fallback(description) ==
    LET is_simple ==
            ContainsAny({"function", "print", "calculate", "loop", "algorithm", "script"},
                        description)
        lang ==
            IF Contains("javascript", description) \/ Contains("node", description)
            THEN <<"javascript", "express">>
            ELSE IF Contains("java", description) /\ ~Contains("javascript", description)
            THEN <<"java", "spring">>
            ELSE <<"python", "fastapi">>
        use_framework ==
            ~is_simple
            /\ ContainsAny({"api", "server", "web", "endpoint", "rest"}, description)
    IN [backend_language |-> lang[1], framework |-> lang[2],
        use_framework |-> use_framework]

\* detect_stack_with_langchain: the validated model output, or the rule-based
\* fallback on any exception.
detect_stack_with_langchain(ok, result, description) ==
    IF ok THEN result
    ELSE [backend_language |-> detect_stack_fallback(description).backend_language,
          framework |-> detect_stack_fallback(description).framework,
          use_framework |-> detect_stack_fallback(description).use_framework,
          frontend_framework |-> detect_frontend_framework(description)]

\* determine_generation_types of groq_client.py.
determine_generation_types(analysis) ==
    LET generate_types == [k \in Kinds |-> k \in analysis.components_needed]
    IN IF ~\E k \in Kinds : generate_types[k]
       THEN [generate_types EXCEPT !["backend_code"] = TRUE]
       ELSE generate_types

\* generate_ui_code: the prompt template chosen for a frontend framework.
UiTemplate(frontend_framework) ==
    CASE frontend_framework = "react" -> "UI_REACT_PROMPT"
      [] frontend_framework = "vue" -> "UI_VUE_PROMPT"
      [] frontend_framework = "angular" -> "UI_ANGULAR_PROMPT"
      [] OTHER -> "UI_HTML_PROMPT"

\* A variant of BackendTemplate: a script without a framework gets the
\* core-script entry.
BackendTemplate_three_way(analysis) ==
    IF analysis.code_type = "script" /\ ~analysis.requires_framework
    THEN "core_script"
    ELSE IF analysis.code_type = "simple_function" \/ ~analysis.requires_framework
    THEN "simple_function"
    ELSE "web_api"

\* generate_backend_code: the entry of CODE_GENERATION_PROMPTS chosen for an analysis.
BackendTemplate(analysis) ==
    IF analysis.code_type = "simple_function" \/ ~analysis.requires_framework
    THEN "simple_function"
    ELSE IF analysis.requires_framework THEN "web_api"
    ELSE "core_script"

\* any(generate_types.values())
AnyTrue(generate_types) == \E k \in Kinds : generate_types[k]

\* A variant of ResolveTypes: the components the classifier names win over
\* the caller's selection.
ResolveTypes_classifier_first(generate_types, analysis) ==
    IF analysis.components_needed # {} THEN determine_generation_types(analysis)
    ELSE generate_types

\* Lines 285-287 of generation_stream: the caller's selection when it
\* selects a kind, else the selection derived from the analysis.
ResolveTypes(generate_types, analysis) ==
    IF ~AnyTrue(generate_types) THEN determine_generation_types(analysis)
    ELSE generate_types

\* Lines 644-646 of generate_components: "if not generate_types" holds for
\* None and for an empty dictionary (given = FALSE), not for a dictionary
\* with keys, whatever their values.
generate_components_types(given, generate_types, analysis) ==
    IF ~given THEN determine_generation_types(analysis) ELSE generate_types

\* ------------------------------------------------------------------------
\* State
\* ------------------------------------------------------------------------
VARIABLES
    clients,          \* the runs whose client sends a request
    pc,               \* pc[r]: the position of run r in generate_code / generation_stream
    file_path,        \* file_path[r]: the staged file of the run, or "None"
    prompt,           \* prompt[r]
    generate_types,   \* generate_types[r]: kind -> selected
    record,           \* record[r]: the attributes of the run's GenerationRecord object
    full_description, \* full_description[r]
    analysis,         \* analysis[r]: the CodeAnalysis of the run
    stack,            \* stack[r]: backend_language, framework, use_framework, frontend_framework
    result,           \* result[r]: the text the last generate_* call returned
    override,         \* override[r]: the stack parameters of the request, or NoOverride
    invoked,          \* invoked[r][k]: the arguments of the generate_* call of kind k
    events,           \* events[r]: the events the stream of run r has yielded
    calls,            \* calls[r]: the external model calls run r has made, in order
    commits,          \* commits[r]: the commits of run r that returned, in order
    failed,           \* failed[r]: the commit of run r that raised, or "none"
    store,            \* the generation_records table: id -> row of the mapped columns
    files,            \* the files present in the upload directory
    arg,              \* the text a caller of remove_think_tags passes
    cleaned,          \* the texts its successive applications have returned
    disconnected,     \* the runs whose client has closed the connection
    decision,         \* what the rule-based classifier returned for arg, once called
    passed            \* passed[r]: the description argument of each call of calls[r]

vars ==
    <<clients, pc, file_path, prompt, generate_types, record, full_description,
      analysis, stack, result, override, invoked, events, calls, commits, failed,
      store, files, arg, cleaned, disconnected, decision, passed>>

\* The state of a direct use of remove_think_tags and of the connections,
\* which no step of a request touches.
harness == <<arg, cleaned, disconnected, decision>>

\* The locals of a run that its DB steps leave alone.
locals ==
    <<file_path, prompt, generate_types, full_description, analysis, stack, result,
      override, invoked>>

At(label) == [at |-> label, kind |-> "none"]

AtKind(label, k) == [at |-> label, kind |-> k]

\* GenerationRecord(image_path=file_path, prompt=prompt): every other attribute unset.
NewRecord(path, p) ==
    [a \in RecordAttrs |->
        CASE a = "id" -> NoId
          [] a = "image_path" -> path
          [] a = "prompt" -> p
          [] a \in {"backend_language", "framework", "frontend_framework"} -> "None"
          [] OTHER -> None]

NoAnalysis ==
    [language |-> "None", requires_framework |-> FALSE, framework |-> "None",
     frontend_framework |-> "None", code_type |-> "None",
     components_needed |-> {}, ui_type |-> "None"]

NoStack ==
    [backend_language |-> "None", framework |-> "None",
     use_framework |-> FALSE, frontend_framework |-> "None"]

\* A request without backend_language and frontend_framework parameters.
NoOverride == [backend_language |-> "None", frontend_framework |-> "None"]

\* The generate_* function of a kind has not been called.
NotInvoked == [template |-> "None", language |-> "None", framework |-> "None"]

Event(type, data) == [event |-> type, data |-> data]

\* sse_event("error", {"message": f"{prefix}{str(e)}", ...})
ErrorEvent(prefix, cause) == Event("error", [message |-> <<prefix>> \o cause])

\* The row a commit writes for a record object: its mapped columns only.
Row(rec) == [c \in MappedColumns |-> rec[c]]

\* The id the table assigns to an inserted row (INTEGER PRIMARY KEY).
NextId(table) ==
    IF DOMAIN table = {} THEN 1
    ELSE (CHOOSE i \in DOMAIN table : \A j \in DOMAIN table : j <= i) + 1

\* The server is up, the table is empty, no request has arrived.
ServerUp ==
    /\ pc = [r \in Runs |-> At("idle")]
    /\ file_path = [r \in Runs |-> "None"]
    /\ prompt = [r \in Runs |-> << >>]
    /\ generate_types = [r \in Runs |-> [k \in Kinds |-> FALSE]]
    /\ record = [r \in Runs |-> NewRecord("None", << >>)]
    /\ full_description = [r \in Runs |-> << >>]
    /\ analysis = [r \in Runs |-> NoAnalysis]
    /\ stack = [r \in Runs |-> NoStack]
    /\ result = [r \in Runs |-> None]
    /\ override = [r \in Runs |-> NoOverride]
    /\ invoked = [r \in Runs |-> [k \in Kinds |-> NotInvoked]]
    /\ events = [r \in Runs |-> << >>]
    /\ calls = [r \in Runs |-> << >>]
    /\ commits = [r \in Runs |-> << >>]
    /\ failed = [r \in Runs |-> "none"]
    /\ store = << >>
    /\ files = {}
    /\ disconnected = {}
    /\ decision = << >>
    /\ passed = [r \in Runs |-> << >>]

\* The server is up; one client is about to send a request.
Init ==
    /\ clients = {1}
    /\ ServerUp
    /\ arg = << >>
    /\ cleaned = << >>

\* ------------------------------------------------------------------------
\* POST /generate-code (main.py, generate_code)
\* ------------------------------------------------------------------------
ALLOWED_EXTENSIONS == {"png", "jpg", "jpeg", "pdf"}

MAX_FILE_SIZE == 5 * 1024 * 1024

\* The uploads of a request: no file, or a file with an extension and a size.
Uploads ==
    {[present |-> FALSE, ext |-> "", size |-> 0]}
    \cup [present : {TRUE}, ext : {"png", "exe"}, size : {MAX_FILE_SIZE, MAX_FILE_SIZE + 1}]

\* The generate_types a caller sends: no kind, one kind, two kinds or all
\* six kinds selected.
Selections ==
    {[k \in Kinds |-> k \in S] :
        S \in {{}} \cup {{j, k} : j, k \in Kinds} \cup {Kinds}}

\* ------------------------------------------------------------------------
\* The Streamlit client (frontend/app.py)
\* ------------------------------------------------------------------------
\* The alternatives of the regular expression of a kind in the client's
\* determine_generation_types; its dictionary has no er_diagram key.
FrontendKeywords(k) ==
    CASE k = "ui_code" ->
            {"ui", "frontend", "html", "css", "javascript", "react", "interface"}
      [] k = "db_schema" -> {"database", "schema", "tables", "sql schema", "db design"}
      [] k = "backend_code" ->
            {"backend", "api", "server", "python", "javascript", "java", "go", "django",
             "flask", "fastapi", "express", "spring", "gin"}
      [] k = "db_queries" ->
            {"queries", "sql", "database queries", "crud", "select", "insert", "update",
             "delete"}
      [] k = "tech_docs" -> {"documentation", "docs", "technical docs", "readme", "guide"}
      [] OTHER -> {}

\* re.search(r"\b(kw)\b", prompt.lower()): a whole word of the prompt is the keyword.
WordMatch(kw, text) == \E i \in 1..Len(text) : Lower(text[i]) = kw

\* determine_generation_types of frontend/app.py: the kinds whose keywords
\* the prompt holds, or, for a non-blank prompt that holds none, every key
\* of the dictionary.  generate_types.get("er_diagram") is None on the server.
frontend_determine_generation_types(text) ==
    LET types == [k \in Kinds |-> \E kw \in FrontendKeywords(k) : WordMatch(kw, text)]
    IN IF ~AnyTrue(types) /\ RStrip(LStrip(text)) # << >>
       THEN [k \in Kinds |-> k # "er_diagram"]
       ELSE types

\* The backend_language and frontend_framework parameters a caller of
\* /generate-fullstack sends: the defaults of the endpoint, or its own.
Overrides ==
    {[backend_language |-> "python", frontend_framework |-> "react"],
     [backend_language |-> "java", frontend_framework |-> "vue"]}

\* Helper of the steps below: only run r's entry of a per-run variable changes.
Set(f, r, v) == [f EXCEPT ![r] = v]

Emit(r, e) == events' = [events EXCEPT ![r] = Append(@, e)]

\* The except clauses of generation_stream that catch an exception raised
\* by a DB statement at a position: the local "except OperationalError"
\* where there is one, else the outer "except Exception".
DbErrorPrefix(at, e) ==
    IF e = "OperationalError" /\ at = "table_check"
    THEN "Database table 'generation_records' does not exist: "
    ELSE IF e = "OperationalError" /\ at = "create_record"
    THEN "Failed to save record to database: "
    ELSE IF e = "OperationalError" /\ at = "persist_description"
    THEN "Failed to update record description: "
    ELSE "Unexpected error: "

\* The request is rejected with 400 before anything is staged.
generate_code_reject_file(r) ==
    /\ r \in clients
    /\ pc[r] = At("idle")
    /\ \E upload \in Uploads :
          /\ upload.present
          /\ \/ upload.ext \notin ALLOWED_EXTENSIONS
             \/ upload.size > MAX_FILE_SIZE
    /\ pc' = Set(pc, r, At("rejected"))
    /\ UNCHANGED <<harness, passed, clients, locals, record, events, calls, commits, failed, store, files>>

\* The upload is staged, then json.loads(generate_types) raises: 400.
generate_code_reject_json(r) ==
    /\ r \in clients
    /\ pc[r] = At("idle")
    /\ \E upload \in Uploads :
          /\ ~upload.present \/ (upload.ext \in ALLOWED_EXTENSIONS /\ upload.size <= MAX_FILE_SIZE)
          /\ files' = IF upload.present THEN files \cup {StagedFile(r)} ELSE files
          /\ file_path' = Set(file_path, r, IF upload.present THEN StagedFile(r) ELSE "None")
    /\ pc' = Set(pc, r, At("rejected"))
    /\ UNCHANGED <<harness, passed, clients, prompt, generate_types, full_description, analysis, stack,
                   result, override, invoked, record, events, calls, commits, failed,
                   store>>

\* The request is accepted: the upload is staged and the stream starts.
generate_code(r) ==
    /\ r \in clients
    /\ pc[r] = At("idle")
    /\ \E upload \in Uploads, p \in Prompts :
       \E gt \in Selections \cup {frontend_determine_generation_types(p)} :
          /\ ~upload.present \/ (upload.ext \in ALLOWED_EXTENSIONS /\ upload.size <= MAX_FILE_SIZE)
          /\ files' = IF upload.present THEN files \cup {StagedFile(r)} ELSE files
          /\ file_path' = Set(file_path, r, IF upload.present THEN StagedFile(r) ELSE "None")
          /\ prompt' = Set(prompt, r, p)
          /\ generate_types' = Set(generate_types, r, gt)
    /\ pc' = Set(pc, r, At("table_check"))
    /\ UNCHANGED <<harness, passed, clients, full_description, analysis, stack, result, override,
                   invoked, record, events, calls, commits, failed, store>>

\* ------------------------------------------------------------------------
\* POST /generate-fullstack (main.py, generate_fullstack)
\* ------------------------------------------------------------------------
\* The request is rejected with 400 before anything is staged.
generate_fullstack_reject_file(r) ==
    /\ r \in clients
    /\ pc[r] = At("idle")
    /\ \E upload \in Uploads :
          /\ upload.present
          /\ \/ upload.ext \notin ALLOWED_EXTENSIONS
             \/ upload.size > MAX_FILE_SIZE
    /\ pc' = Set(pc, r, At("rejected"))
    /\ UNCHANGED <<harness, passed, clients, locals, record, events, calls, commits, failed, store, files>>

\* The request is accepted: the upload is staged and the stream starts with
\* every kind selected.  backend_language and frontend_framework are logged
\* and passed nowhere.
generate_fullstack(r) ==
    /\ r \in clients
    /\ pc[r] = At("idle")
    /\ \E upload \in Uploads, p \in Prompts, ov \in Overrides :
          /\ ~upload.present \/ (upload.ext \in ALLOWED_EXTENSIONS /\ upload.size <= MAX_FILE_SIZE)
          /\ files' = IF upload.present THEN files \cup {StagedFile(r)} ELSE files
          /\ file_path' = Set(file_path, r, IF upload.present THEN StagedFile(r) ELSE "None")
          /\ prompt' = Set(prompt, r, p)
          /\ override' = Set(override, r, ov)
    /\ generate_types' = Set(generate_types, r, [k \in Kinds |-> TRUE])
    /\ pc' = Set(pc, r, At("table_check"))
    /\ UNCHANGED <<harness, passed, clients, full_description, analysis, stack, result, invoked, record,
                   events, calls, commits, failed, store>>

\* ------------------------------------------------------------------------
\* generation_stream (main.py): up to the config event
\* ------------------------------------------------------------------------
\* db.execute("SELECT 1 FROM generation_records LIMIT 1") returns.
TableCheckOk(r) ==
    /\ pc[r] = At("table_check")
    /\ pc' = Set(pc, r, At("create_record"))
    /\ UNCHANGED <<harness, passed, clients, locals, record, events, calls, commits, failed, store, files>>

\* A variant of TableCheckRaise: the exception is logged and the generator
\* returns without an event.
TableCheckRaise_silent(r) ==
    /\ pc[r] = At("table_check")
    /\ pc' = Set(pc, r, At("done"))
    /\ UNCHANGED <<harness, passed, clients, locals, record, events, calls, commits, failed, store,
                   files>>

\* The table check raises: error event, return.
TableCheckRaise(r) ==
    /\ pc[r] = At("table_check")
    /\ \E e \in DbErrors : Emit(r, ErrorEvent(DbErrorPrefix("table_check", e), <<e>>))
    /\ pc' = Set(pc, r, At("done"))
    /\ UNCHANGED <<harness, passed, clients, locals, record, calls, commits, failed, store, files>>

\* A variant of CreateRecordOk: when the table has a row, the run takes
\* that row as its record instead of inserting a new one.
CreateRecordOk_resuming(r) ==
    /\ pc[r] = At("create_record")
    /\ LET id == IF DOMAIN store = {} THEN 1 ELSE CHOOSE i \in DOMAIN store : TRUE
           rec == [NewRecord(file_path[r], prompt[r]) EXCEPT !["id"] = id]
       IN /\ record' = Set(record, r, rec)
          /\ store' = (id :> Row(rec)) @@ store
    /\ commits' = Set(commits, r, Append(commits[r], "record"))
    /\ pc' = Set(pc, r, At("extract"))
    /\ UNCHANGED <<harness, passed, clients, locals, events, calls, failed, files>>

\* record = GenerationRecord(...); db.add(record); db.commit(); db.refresh(record)
CreateRecordOk(r) ==
    /\ pc[r] = At("create_record")
    /\ LET rec == [NewRecord(file_path[r], prompt[r]) EXCEPT !["id"] = NextId(store)]
       IN /\ record' = Set(record, r, rec)
          /\ store' = store @@ (rec["id"] :> Row(rec))
    /\ commits' = Set(commits, r, Append(commits[r], "record"))
    /\ pc' = Set(pc, r, At("extract"))
    /\ UNCHANGED <<harness, passed, clients, locals, events, calls, failed, files>>

\* A failed DB commit at a position before the artifacts: nothing is
\* written, the except clause that catches it yields an error event and
\* the generator returns.
CommitRaise(r, at) ==
    /\ pc[r] = At(at)
    /\ \E e \in DbErrors : Emit(r, ErrorEvent(DbErrorPrefix(at, e), <<e>>))
    /\ failed' = Set(failed, r, at)
    /\ pc' = Set(pc, r, At("done"))
    /\ UNCHANGED <<harness, passed, clients, locals, record, calls, commits, store, files>>

CreateRecordRaise(r) == CommitRaise(r, "create_record")

\* A variant of ExtractText: a failed extraction raises out of file_to_text
\* and the except block of generation_stream ends the run.
ExtractText_raising(r) ==
    /\ pc[r] = At("extract")
    /\ \/ /\ \E t \in ExtractedTexts \ {ExtractionSentinel} :
                LET description == IF file_path[r] # "None" THEN t ELSE << >>
                    full == description \o <<"\n\nUser Requirements: ">> \o prompt[r]
                IN /\ full_description' = Set(full_description, r, full)
                   /\ record' = [record EXCEPT ![r]["description"] = full]
          /\ pc' = Set(pc, r, At("persist_description"))
          /\ UNCHANGED events
       \/ /\ file_path[r] # "None"
          /\ Emit(r, ErrorEvent("Image processing failed: ", <<"OSError">>))
          /\ pc' = Set(pc, r, At("done"))
          /\ UNCHANGED <<full_description, record>>
    /\ UNCHANGED <<harness, passed, clients, file_path, prompt, generate_types, analysis, stack,
                   result, override, invoked, calls, commits, failed, store, files>>

\* description = "" or image_to_text(file_path); full_description = f"...";
\* record.description = full_description
\* (file_to_text catches every exception itself, so the except block of
\* lines 193-204 is never entered.)
ExtractText(r) ==
    /\ pc[r] = At("extract")
    /\ \E ok \in BOOLEAN, text \in ExtractedTexts :
          LET description == IF file_path[r] # "None" THEN file_to_text(ok, text) ELSE << >>
              full == description \o <<"\n\nUser Requirements: ">> \o prompt[r]
          IN /\ full_description' = Set(full_description, r, full)
             /\ record' = [record EXCEPT ![r]["description"] = full]
    /\ pc' = Set(pc, r, At("persist_description"))
    /\ UNCHANGED <<harness, passed, clients, file_path, prompt, generate_types, analysis, stack, result,
                   override, invoked, events, calls, commits, failed, store, files>>

\* A variant of Flush: the commit of a block writes the block's own
\* artifact column and clears the other artifact columns of the row.
Flush_clearing(r) ==
    store' = [store EXCEPT ![record[r]["id"]] =
                 [c \in MappedColumns |->
                     IF c \in Kinds /\ c # pc[r].kind THEN None ELSE record[r][c]]]

\* A variant of Flush: the commit writes to the newest row of the table,
\* as if the requests shared one current record.
Flush_newest_row(r) ==
    store' = [store EXCEPT ![NextId(store) - 1] = Row(record[r])]

\* A db.commit() of run r that returns: the mapped columns of its record
\* object are written to its row.
Flush(r) == store' = [store EXCEPT ![record[r]["id"]] = Row(record[r])]

PersistDescriptionOk(r) ==
    /\ pc[r] = At("persist_description")
    /\ Flush(r)
    /\ commits' = Set(commits, r, Append(commits[r], "description"))
    /\ pc' = Set(pc, r, At("analyze"))
    /\ UNCHANGED <<harness, passed, clients, locals, record, events, calls, failed, files>>

PersistDescriptionRaise(r) == CommitRaise(r, "persist_description")

\* analysis = await analyze_request(full_description)
Analyze(r) ==
    /\ pc[r] = At("analyze")
    /\ \E ok \in BOOLEAN, res \in AnalysisResults :
          analysis' = Set(analysis, r, analyze_request(ok, res))
    /\ passed' = Set(passed, r, Append(passed[r], full_description[r]))
    /\ calls' = Set(calls, r, Append(calls[r], "analyze_request"))
    /\ pc' = Set(pc, r, At("detect_stack"))
    /\ UNCHANGED <<harness, clients, file_path, prompt, generate_types, full_description, stack,
                   result, override, invoked, record, events, commits, failed, store,
                   files>>

\* A variant of DetectStack: a failure of the model call is not caught by
\* detect_stack_with_langchain and reaches the outer except of generation_stream.
DetectStack_propagating(r) ==
    /\ pc[r] = At("detect_stack")
    /\ \E cause \in LLMErrors : Emit(r, ErrorEvent("Unexpected error: ", <<cause>>))
    /\ passed' = Set(passed, r, Append(passed[r], full_description[r]))
    /\ calls' = Set(calls, r, Append(calls[r], "detect_stack_with_langchain"))
    /\ pc' = Set(pc, r, At("done"))
    /\ UNCHANGED <<harness, clients, locals, record, commits, failed, store, files>>

\* backend_language, framework, use_framework, frontend_framework =
\*     await detect_stack_with_langchain(full_description)
\* record.backend_language = ...; record.framework = ...; record.frontend_framework = ...
\* (Both classification calls catch every Exception themselves, so the
\* except block of lines 238-264 is never entered.)
DetectStack(r) ==
    /\ pc[r] = At("detect_stack")
    /\ \E ok \in BOOLEAN, res \in StackResults :
          LET st == detect_stack_with_langchain(ok, res, full_description[r])
          IN /\ stack' = Set(stack, r, st)
             /\ record' = [record EXCEPT
                    ![r]["backend_language"] = st.backend_language,
                    ![r]["framework"] = IF st.use_framework THEN st.framework ELSE "core",
                    ![r]["frontend_framework"] = st.frontend_framework]
    /\ passed' = Set(passed, r, Append(passed[r], full_description[r]))
    /\ calls' = Set(calls, r, Append(calls[r], "detect_stack_with_langchain"))
    /\ pc' = Set(pc, r, At("persist_stack"))
    /\ UNCHANGED <<harness, clients, file_path, prompt, generate_types, full_description, analysis,
                   result, override, invoked, events, commits, failed, store, files>>

PersistStackOk(r) ==
    /\ pc[r] = At("persist_stack")
    /\ Flush(r)
    /\ commits' = Set(commits, r, Append(commits[r], "stack"))
    /\ pc' = Set(pc, r, At("config"))
    /\ UNCHANGED <<harness, passed, clients, locals, record, events, calls, failed, files>>

\* A variant of PersistStackRaise: the failure is swallowed and the run goes on.
PersistStackRaise_swallowed(r) ==
    /\ pc[r] = At("persist_stack")
    /\ failed' = Set(failed, r, "persist_stack")
    /\ pc' = Set(pc, r, At("config"))
    /\ UNCHANGED <<harness, passed, clients, locals, record, events, calls, commits, store, files>>

PersistStackRaise(r) == CommitRaise(r, "persist_stack")

\* A variant of YieldConfig: no config event.
YieldConfig_silent(r) ==
    /\ pc[r] = At("config")
    /\ pc' = Set(pc, r, At("resolve"))
    /\ UNCHANGED <<harness, passed, clients, locals, record, events, calls, commits, failed, store, files>>

\* yield sse_event("config", {...})
YieldConfig(r) ==
    /\ pc[r] = At("config")
    /\ Emit(r, Event("config",
                     [backend_language |-> stack[r].backend_language,
                      framework |-> stack[r].framework,
                      frontend_framework |-> stack[r].frontend_framework,
                      use_framework |-> stack[r].use_framework,
                      analysis |-> analysis[r]]))
    /\ pc' = Set(pc, r, At("resolve"))
    /\ UNCHANGED <<harness, passed, clients, locals, record, calls, commits, failed, store, files>>

\* if not any(generate_types.values()): generate_types = determine_generation_types(analysis)
Resolve(r) ==
    /\ pc[r] = At("resolve")
    /\ generate_types' = Set(generate_types, r, ResolveTypes(generate_types[r], analysis[r]))
    /\ pc' = Set(pc, r, AtKind("if", Order[1]))
    /\ UNCHANGED <<harness, passed, clients, file_path, prompt, full_description, analysis, stack, result,
                   override, invoked, record, events, calls, commits, failed, store,
                   files>>

\* ------------------------------------------------------------------------
\* generation_stream: the six artifact blocks, the complete event, cleanup
\* ------------------------------------------------------------------------
\* Where a run goes after the block of kind k.
AfterKind(k) == IF NextKind(k) = "none" THEN At("complete") ELSE AtKind("if", NextKind(k))

\* A variant of ArtifactData: the backend_code event reports the detected
\* framework whatever use_framework says, as the config event does.
ArtifactData_detected_framework(r, k) ==
    [content |-> result[r],
     language |-> IF k = "backend_code" THEN stack[r].backend_language ELSE "None",
     framework |->
        IF k = "ui_code"
        THEN (IF analysis[r].frontend_framework \in {"None", ""}
              THEN "html" ELSE analysis[r].frontend_framework)
        ELSE IF k = "backend_code" THEN stack[r].framework
        ELSE "None"]

\* The payload of the artifact event of kind k.
ArtifactData(r, k) ==
    [content |-> result[r],
     language |-> IF k = "backend_code" THEN stack[r].backend_language ELSE "None",
     framework |->
        IF k = "ui_code"
        THEN (IF analysis[r].frontend_framework \in {"None", ""}
              THEN "html" ELSE analysis[r].frontend_framework)
        ELSE IF k = "backend_code"
        THEN (IF stack[r].use_framework THEN stack[r].framework ELSE "core")
        ELSE "None"]

\* if generate_types.get(k): yield progress started
BlockStart(r) ==
    /\ pc[r].at = "if"
    /\ generate_types[r][pc[r].kind]
    /\ Emit(r, Event("progress", [step |-> StepName(pc[r].kind), status |-> "started"]))
    /\ pc' = Set(pc, r, AtKind("invoke", pc[r].kind))
    /\ UNCHANGED <<harness, passed, clients, locals, record, calls, commits, failed, store, files>>

\* A variant of BlockSkip: a block may be skipped whatever the selection.
BlockSkip_any(r) ==
    /\ pc[r].at = "if"
    /\ pc' = Set(pc, r, AfterKind(pc[r].kind))
    /\ UNCHANGED <<harness, passed, clients, locals, record, events, calls, commits, failed, store, files>>

\* if generate_types.get(k) is false: the block is skipped.
BlockSkip(r) ==
    /\ pc[r].at = "if"
    /\ ~generate_types[r][pc[r].kind]
    /\ pc' = Set(pc, r, AfterKind(pc[r].kind))
    /\ UNCHANGED <<harness, passed, clients, locals, record, events, calls, commits, failed, store, files>>

\* The arguments generation_stream passes to the generate_* function of
\* kind k, and the prompt template the function chooses from them.
CallArgs(r, k) ==
    IF k = "ui_code"
    THEN [template |-> UiTemplate(analysis[r].frontend_framework),
          language |-> "None",
          framework |-> analysis[r].frontend_framework]
    ELSE IF k = "backend_code"
    THEN [template |-> BackendTemplate(analysis[r]),
          language |-> stack[r].backend_language,
          framework |-> IF analysis[r].requires_framework THEN stack[r].framework
                        ELSE "none"]
    ELSE [template |-> k, language |-> "None", framework |-> "None"]

\* A variant of Invoke: the generate_* function gets the raw prompt.
Invoke_raw_prompt(r) ==
    /\ pc[r].at = "invoke"
    /\ passed' = Set(passed, r, Append(passed[r], prompt[r]))
    /\ calls' = Set(calls, r, Append(calls[r], pc[r].kind))
    /\ invoked' = [invoked EXCEPT ![r][pc[r].kind] = CallArgs(r, pc[r].kind)]
    /\ pc' = Set(pc, r, AtKind("await", pc[r].kind))
    /\ UNCHANGED <<harness, clients, file_path, prompt, generate_types, full_description, analysis,
                   stack, result, override, record, events, commits, failed, store,
                   files>>

\* The generate_* function of the kind is called and awaited.
Invoke(r) ==
    /\ pc[r].at = "invoke"
    /\ passed' = Set(passed, r, Append(passed[r], full_description[r]))
    /\ calls' = Set(calls, r, Append(calls[r], pc[r].kind))
    /\ invoked' = [invoked EXCEPT ![r][pc[r].kind] = CallArgs(r, pc[r].kind)]
    /\ pc' = Set(pc, r, AtKind("await", pc[r].kind))
    /\ UNCHANGED <<harness, clients, file_path, prompt, generate_types, full_description, analysis,
                   stack, result, override, record, events, commits, failed, store,
                   files>>

\* A variant of GenerateOk: the run goes on with the next block without
\* committing the result and without its artifact and completed events.
GenerateOk_uncommitted(r) ==
    /\ pc[r].at = "await"
    /\ \E raw \in LLMOutputs(pc[r].kind) :
          /\ result' = Set(result, r, remove_think_tags(raw))
          /\ record' = [record EXCEPT ![r][pc[r].kind] = remove_think_tags(raw)]
    /\ pc' = Set(pc, r, AfterKind(pc[r].kind))
    /\ UNCHANGED <<harness, passed, clients, file_path, prompt, generate_types, full_description, analysis,
                   stack, override, invoked, events, calls, commits, failed, store,
                   files>>

\* The call returns remove_think_tags(raw output); record.<kind> = it.
GenerateOk(r) ==
    /\ pc[r].at = "await"
    /\ \E raw \in LLMOutputs(pc[r].kind) :
          /\ result' = Set(result, r, remove_think_tags(raw))
          /\ record' = [record EXCEPT ![r][pc[r].kind] = remove_think_tags(raw)]
    /\ pc' = Set(pc, r, AtKind("commit", pc[r].kind))
    /\ UNCHANGED <<harness, passed, clients, file_path, prompt, generate_types, full_description, analysis,
                   stack, override, invoked, events, calls, commits, failed, store,
                   files>>

\* A variant of GenerateRaise: after the error event the run goes on with the next block.
GenerateRaise_continue(r) ==
    /\ pc[r].at = "await"
    /\ \E cause \in LLMErrors :
          Emit(r, ErrorEvent(ErrorPrefix(pc[r].kind), <<ErrorPrefix(pc[r].kind), cause>>))
    /\ pc' = Set(pc, r, AfterKind(pc[r].kind))
    /\ UNCHANGED <<harness, passed, clients, locals, record, calls, commits, failed, store, files>>

\* A variant of GenerateRaise: the failed call is made again.
GenerateRaise_retry(r) ==
    /\ pc[r].at = "await"
    /\ pc' = Set(pc, r, AtKind("invoke", pc[r].kind))
    /\ UNCHANGED <<harness, passed, clients, locals, record, events, calls, commits, failed, store, files>>

\* A variant of GenerateRaise: the generate_* function does not catch the
\* failure of the model call and the block has no except clause, so the
\* failure reaches the last except clause of generation_stream.
GenerateRaise_unnamed(r) ==
    /\ pc[r].at = "await"
    /\ \E cause \in LLMErrors : Emit(r, ErrorEvent("Unexpected error: ", <<cause>>))
    /\ pc' = Set(pc, r, At("done"))
    /\ UNCHANGED <<harness, passed, clients, locals, record, calls, commits, failed, store, files>>

\* The call raises Exception(f"<kind> generation failed: {cause}"); the
\* except block of the kind yields an error event and the generator returns.
GenerateRaise(r) ==
    /\ pc[r].at = "await"
    /\ \E cause \in LLMErrors :
          Emit(r, ErrorEvent(ErrorPrefix(pc[r].kind), <<ErrorPrefix(pc[r].kind), cause>>))
    /\ pc' = Set(pc, r, At("done"))
    /\ UNCHANGED <<harness, passed, clients, locals, record, calls, commits, failed, store, files>>

\* db.commit() of the block returns.
CommitArtifactOk(r) ==
    /\ pc[r].at = "commit"
    /\ Flush(r)
    /\ commits' = Set(commits, r, Append(commits[r], pc[r].kind))
    /\ pc' = Set(pc, r, AtKind("yield_artifact", pc[r].kind))
    /\ UNCHANGED <<harness, passed, clients, locals, record, events, calls, failed, files>>

\* A variant of CommitArtifactRaise: after the error event the run goes on with the next block.
CommitArtifactRaise_continue(r) ==
    /\ pc[r].at = "commit"
    /\ \E e \in DbErrors : Emit(r, ErrorEvent(ErrorPrefix(pc[r].kind), <<e>>))
    /\ failed' = Set(failed, r, pc[r].kind)
    /\ pc' = Set(pc, r, AfterKind(pc[r].kind))
    /\ UNCHANGED <<harness, passed, clients, locals, record, calls, commits, store, files>>

\* db.commit() of the block raises: the except block of the kind yields an
\* error event and the generator returns.
CommitArtifactRaise(r) ==
    /\ pc[r].at = "commit"
    /\ \E e \in DbErrors : Emit(r, ErrorEvent(ErrorPrefix(pc[r].kind), <<e>>))
    /\ failed' = Set(failed, r, pc[r].kind)
    /\ pc' = Set(pc, r, At("done"))
    /\ UNCHANGED <<harness, passed, clients, locals, record, calls, commits, store, files>>

\* A variant of YieldArtifact: no artifact event.
YieldArtifact_skipped(r) ==
    /\ pc[r].at = "yield_artifact"
    /\ pc' = Set(pc, r, AtKind("yield_completed", pc[r].kind))
    /\ UNCHANGED <<harness, passed, clients, locals, record, events, calls, commits, failed, store, files>>

\* yield sse_event(<kind>, {...})
YieldArtifact(r) ==
    /\ pc[r].at = "yield_artifact"
    /\ Emit(r, Event(pc[r].kind, ArtifactData(r, pc[r].kind)))
    /\ pc' = Set(pc, r, AtKind("yield_completed", pc[r].kind))
    /\ UNCHANGED <<harness, passed, clients, locals, record, calls, commits, failed, store, files>>

\* yield progress completed
YieldCompleted(r) ==
    /\ pc[r].at = "yield_completed"
    /\ Emit(r, Event("progress", [step |-> StepName(pc[r].kind), status |-> "completed"]))
    /\ pc' = Set(pc, r, AfterKind(pc[r].kind))
    /\ UNCHANGED <<harness, passed, clients, locals, record, calls, commits, failed, store, files>>

\* yield sse_event("complete", {"id": record.id}); the id is the one the
\* record object got when it was created.
YieldComplete(r) ==
    /\ pc[r] = At("complete")
    /\ Emit(r, Event("complete", [id |-> record[r]["id"]]))
    /\ pc' = Set(pc, r, At("cleanup"))
    /\ UNCHANGED <<harness, passed, clients, locals, record, calls, commits, failed, store, files>>

\* if file_path and os.path.exists(file_path): os.remove(file_path) returns;
\* or there is nothing to remove.
CleanupOk(r) ==
    /\ pc[r] = At("cleanup")
    /\ files' = files \ {file_path[r]}
    /\ pc' = Set(pc, r, At("done"))
    /\ UNCHANGED <<harness, passed, clients, locals, record, events, calls, commits, failed, store>>

\* A variant of CleanupRaise: the failed deletion is reported as an error
\* and the run is marked failed.
CleanupRaise_fatal(r) ==
    /\ pc[r] = At("cleanup")
    /\ file_path[r] # "None"
    /\ file_path[r] \in files
    /\ Emit(r, ErrorEvent("Unexpected error: ", <<"OSError">>))
    /\ failed' = Set(failed, r, "cleanup")
    /\ pc' = Set(pc, r, At("done"))
    /\ UNCHANGED <<harness, passed, clients, locals, record, calls, commits, store, files>>

\* os.remove(file_path) raises: a warning event.
CleanupRaise(r) ==
    /\ pc[r] = At("cleanup")
    /\ file_path[r] # "None"
    /\ file_path[r] \in files
    /\ Emit(r, Event("warning", [message |-> <<"Failed to delete uploaded file: ", "OSError">>]))
    /\ pc' = Set(pc, r, At("done"))
    /\ UNCHANGED <<harness, passed, clients, locals, record, calls, commits, failed, store, files>>

\* A request arrives at one of the two generation endpoints.
Request(r) ==
    \/ generate_code_reject_file(r)
    \/ generate_code_reject_json(r)
    \/ generate_code(r)
    \/ generate_fullstack_reject_file(r)
    \/ generate_fullstack(r)

\* A step of the generator generation_stream of run r.
Stream(r) ==
    \/ TableCheckOk(r)
    \/ TableCheckRaise(r)
    \/ CreateRecordOk(r)
    \/ CreateRecordRaise(r)
    \/ ExtractText(r)
    \/ PersistDescriptionOk(r)
    \/ PersistDescriptionRaise(r)
    \/ Analyze(r)
    \/ DetectStack(r)
    \/ PersistStackOk(r)
    \/ PersistStackRaise(r)
    \/ YieldConfig(r)
    \/ Resolve(r)
    \/ BlockStart(r)
    \/ BlockSkip(r)
    \/ Invoke(r)
    \/ GenerateOk(r)
    \/ GenerateRaise(r)
    \/ CommitArtifactOk(r)
    \/ CommitArtifactRaise(r)
    \/ YieldArtifact(r)
    \/ YieldCompleted(r)
    \/ YieldComplete(r)
    \/ CleanupOk(r)
    \/ CleanupRaise(r)

Step(r) == Request(r) \/ Stream(r)

Next == \E r \in Runs : Step(r)

Spec == Init /\ [][Next]_vars

\* ------------------------------------------------------------------------
\* Two clients
\* ------------------------------------------------------------------------
\* The request both clients send, the second possibly while the run of the
\* first is under way, possibly after it has ended: the same upload, the
\* same prompt and the same selection.
SameUpload == [present |-> TRUE, ext |-> "png", size |-> MAX_FILE_SIZE]

SamePrompt == <<"REST", " ", "API", " ", "java">>

SameSelection == [k \in Kinds |-> k = "backend_code"]

\* generate_code for that request: uuid4 gives each staged file its own name.
generate_code_same_request(r) ==
    /\ r \in clients
    /\ pc[r] = At("idle")
    /\ SameUpload.ext \in ALLOWED_EXTENSIONS
    /\ SameUpload.size <= MAX_FILE_SIZE
    /\ files' = files \cup {StagedFile(r)}
    /\ file_path' = Set(file_path, r, StagedFile(r))
    /\ prompt' = Set(prompt, r, SamePrompt)
    /\ generate_types' = Set(generate_types, r, SameSelection)
    /\ pc' = Set(pc, r, At("table_check"))
    /\ UNCHANGED <<harness, passed, clients, full_description, analysis, stack, result, override,
                   invoked, record, events, calls, commits, failed, store>>

\* The server is up, the table is empty; two clients are about to send a request.
InitConc ==
    /\ clients = Runs
    /\ ServerUp
    /\ arg = << >>
    /\ cleaned = << >>

\* Each request has its own database session (get_db) and its own
\* generator; the steps of the two generators interleave.
NextConc == \E r \in Runs : generate_code_same_request(r) \/ Stream(r)

SpecConc == InitConc /\ [][NextConc]_vars

\* ------------------------------------------------------------------------
\* A client that leaves
\* ------------------------------------------------------------------------
\* The positions at which the generator of a run is suspended: before its
\* first iteration, in an await of a model call, or in a yield whose event
\* is being sent.
Suspended(r) ==
    pc[r].at \in {"table_check", "analyze", "detect_stack", "resolve", "invoke", "await",
                  "yield_completed", "if", "complete", "cleanup"}

\* The clients that may close the connection before the stream has ended.
Leavers == {1}

\* A variant of Disconnect: the generator catches the cancellation and goes on.
Disconnect_caught(r) ==
    /\ r \in Leavers \ disconnected
    /\ Suspended(r)
    /\ disconnected' = disconnected \cup {r}
    /\ UNCHANGED <<passed, arg, cleaned, decision, clients, pc, locals, record, events, calls, commits,
                   failed, store, files>>

\* The client of run r closes the connection: the task of the response is
\* cancelled at the point where the generator is suspended.  CancelledError
\* and GeneratorExit are not an Exception, so no except block of
\* generation_stream (which has no finally block) runs and the generator
\* ends there; the session of the request is closed by get_db, which
\* discards what was not committed.
Disconnect(r) ==
    /\ r \in Leavers \ disconnected
    /\ Suspended(r)
    /\ disconnected' = disconnected \cup {r}
    /\ pc' = Set(pc, r, At("cancelled"))
    /\ UNCHANGED <<passed, arg, cleaned, decision, clients, locals, record, events, calls, commits, failed,
                   store, files>>

NextCancel == \E r \in Runs : generate_code_same_request(r) \/ Stream(r) \/ Disconnect(r)

SpecCancel == InitConc /\ [][NextCancel]_vars

\* ------------------------------------------------------------------------
\* The example requests
\* ------------------------------------------------------------------------
\* "Generate a REST API in python with a users table, include documentation"
RestApiPrompt ==
    <<"Generate", " ", "a", " ", "REST", " ", "API", " ", "in", " ", "python", " ",
      "with", " ", "a", " ", "users", " ", "table", ",", " ", "include", " ",
      "documentation">>

\* "write a function that prints numbers 1 to 10"
PrintNumbersPrompt ==
    <<"write", " ", "a", " ", "function", " ", "that", " ", "prints", " ", "numbers",
      " ", "1", " ", "to", " ", "10">>

ExamplePrompts == {RestApiPrompt, PrintNumbersPrompt}

\* An example prompt is sent to /generate-code, with or without a file,
\* by the Streamlit client (the selection it derives from the prompt) or by
\* a caller that sends no selection.
generate_code_example(r) ==
    /\ r \in clients
    /\ pc[r] = At("idle")
    /\ \E present \in BOOLEAN, p \in ExamplePrompts :
       \E gt \in {[k \in Kinds |-> FALSE], frontend_determine_generation_types(p)} :
          /\ files' = IF present THEN files \cup {StagedFile(r)} ELSE files
          /\ file_path' = Set(file_path, r, IF present THEN StagedFile(r) ELSE "None")
          /\ prompt' = Set(prompt, r, p)
          /\ generate_types' = Set(generate_types, r, gt)
    /\ pc' = Set(pc, r, At("table_check"))
    /\ UNCHANGED <<harness, passed, clients, full_description, analysis, stack, result, override,
                   invoked, record, events, calls, commits, failed, store>>

NextExamples == \E r \in Runs : generate_code_example(r) \/ Stream(r)

SpecExamples == Init /\ [][NextExamples]_vars

\* The event loop resumes the generator of a run whenever the call it
\* awaits has returned or raised, and every call does one or the other.
SpecFair == SpecExamples /\ \A r \in Runs : WF_vars(Stream(r))

\* ------------------------------------------------------------------------
\* remove_think_tags on its own
\* ------------------------------------------------------------------------
\* The longest text passed to remove_think_tags.
MaxLen == 5

\* The number of times remove_think_tags is applied to its own result.
MaxApplications == 2

\* The pieces of the texts: the two markers, two pieces that spell the
\* opening marker when they meet, a space and a word.
ThinkAlphabet == {"<think>", "</think>", "<th", "ink>", " ", "a"}

ThinkTexts == UNION {[1..n -> ThinkAlphabet] : n \in 0..MaxLen}

\* No request is under way; some text is about to be cleaned.
InitPure ==
    /\ clients = {}
    /\ ServerUp
    /\ arg \in ThinkTexts
    /\ cleaned = << >>

\* remove_think_tags is applied to the text, then to what it returned.
apply_remove_think_tags ==
    /\ Len(cleaned) < MaxApplications
    /\ cleaned' = Append(cleaned, remove_think_tags(IF cleaned = << >> THEN arg
                                                    ELSE cleaned[Len(cleaned)]))
    /\ UNCHANGED <<passed, arg, disconnected, decision, clients, pc, locals, record, events, calls, commits, failed,
                   store, files>>

NextPure == apply_remove_think_tags

SpecPure == InitPure /\ [][NextPure]_vars

\* ------------------------------------------------------------------------
\* The rule-based classifier on its own
\* ------------------------------------------------------------------------
\* The longest description passed to the classifier, in words.
MaxWords == 3

\* The words of the descriptions: a space and words that hold the keywords
\* of the two functions, some with capitals, some inside a longer word.
ClassifierAlphabet ==
    {" ", "JavaScript", "java", "Node", "API", "server", "website", "endpoint",
     "interest", "function", "prints", "calculate", "loop", "algorithm", "typescript",
     "React", "vue", "angular", "html", "webpage"}

Descriptions == UNION {[1..n -> ClassifierAlphabet] : n \in 0..MaxWords}

\* No request is under way; some description is about to be classified.
InitClassify ==
    /\ clients = {}
    /\ ServerUp
    /\ arg \in Descriptions
    /\ cleaned = << >>

\* The except block of detect_stack_with_langchain: both rule-based
\* functions are called with the description.
classify ==
    /\ decision = << >>
    /\ decision' = <<[stack |-> detect_stack_fallback(arg),
                      frontend_framework |-> detect_frontend_framework(arg)]>>
    /\ UNCHANGED <<passed, arg, cleaned, disconnected, clients, pc, locals, record, events, calls,
                   commits, failed, store, files>>

NextClassify == classify

SpecClassify == InitClassify /\ [][NextClassify]_vars

\* ------------------------------------------------------------------------
\* GET /generations/{generation_id} (main.py, get_generation)
\* ------------------------------------------------------------------------
\* The row is read in a fresh session; getattr(record, name, None) yields
\* None for an attribute the ORM does not map.  The HTTPException(404) is
\* raised inside the try block, whose "except Exception" turns it into 500.
get_generation(generation_id) ==
    IF generation_id \in DOMAIN store
    THEN [status |-> 200,
          body |-> [a \in RecordAttrs |->
                      IF a \in DOMAIN store[generation_id] THEN store[generation_id][a]
                      ELSE IF a = "frontend_framework" THEN "None"
                      ELSE None]]
    ELSE [status |-> 500, body |-> [detail |-> "Failed to retrieve generation: 404: Record not found"]]

\* ------------------------------------------------------------------------
\* Reading an event stream
\* ------------------------------------------------------------------------
IsArtifact(e) == e.event \in Kinds

IsProgress(e) == e.event = "progress"

IsStepEvent(e) == IsArtifact(e) \/ IsProgress(e)

\* The artifact kind an artifact or progress event is about.
EventKind(e) ==
    IF IsArtifact(e) THEN e.event
    ELSE CASE e.data.step = "UI" -> "ui_code"
           [] e.data.step = "DB Schema" -> "db_schema"
           [] e.data.step = "E-R Diagram" -> "er_diagram"
           [] e.data.step = "Backend" -> "backend_code"
           [] e.data.step = "DB Queries" -> "db_queries"
           [] e.data.step = "Documentation" -> "tech_docs"

\* <<kind, started | artifact | completed>> of an artifact or progress event.
Tag(e) == <<EventKind(e), IF IsArtifact(e) THEN "artifact" ELSE e.data.status>>

Tags(evs) ==
    LET steps == SelectSeq(evs, IsStepEvent)
    IN [i \in 1..Len(steps) |-> Tag(steps[i])]

Has(evs, type) == \E i \in 1..Len(evs) : evs[i].event = type

Count(evs, type) == Cardinality({i \in 1..Len(evs) : evs[i].event = type})

IsPrefix(s, t) == Len(s) <= Len(t) /\ \A i \in 1..Len(s) : s[i] = t[i]

\* The selected kinds of a run.
Selected(r) == {k \in Kinds : generate_types[r][k]}

\* The canonical step-event sequence of a set of kinds.
RECURSIVE Canonical(_, _)
Canonical(S, i) ==
    IF i > Len(Order) THEN << >>
    ELSE (IF Order[i] \in S
          THEN <<<<Order[i], "started">>, <<Order[i], "artifact">>, <<Order[i], "completed">>>>
          ELSE << >>) \o Canonical(S, i + 1)

\* The kinds among the calls of a run.
CalledKinds(r) == {calls[r][i] : i \in 1..Len(calls[r])} \cap Kinds

CommittedKinds(r) == {commits[r][i] : i \in 1..Len(commits[r])} \cap Kinds

ArtifactKinds(r) == {events[r][i].event : i \in 1..Len(events[r])} \cap Kinds

\* ------------------------------------------------------------------------
\* Properties
\* ------------------------------------------------------------------------
\* C1: in every run the progress and artifact events appear in the canonical
\* order of the six kinds filtered to the selected set: at every moment they
\* are a prefix of the canonical sequence of the selected set, no event of a
\* later kind precedes one of an earlier kind, and a run that emitted
\* complete has emitted the whole canonical sequence.
C1_CanonicalOrder ==
    \A r \in Runs :
        LET tags == Tags(events[r])
        IN /\ IsPrefix(tags, Canonical(Selected(r), 1))
           /\ \A i \in 1..(Len(tags) - 1) : Rank(tags[i][1]) <= Rank(tags[i + 1][1])
           /\ Has(events[r], "complete") => tags = Canonical(Selected(r), 1)

\* A run that selected ui_code, er_diagram and tech_docs but not db_schema
\* has emitted complete.
C1_Witness ==
    \E r \in Runs :
        /\ Has(events[r], "complete")
        /\ Selected(r) = {"ui_code", "er_diagram", "tech_docs"}

\* The last event of run r is an error event that follows the
\* progress started event of kind k: the block of kind k failed.
BlockFailed(r, k) ==
    /\ Len(events[r]) >= 2
    /\ events[r][Len(events[r])].event = "error"
    /\ IsProgress(events[r][Len(events[r]) - 1])
    /\ Tag(events[r][Len(events[r]) - 1]) = <<k, "started">>

\* The content the artifact event of kind k of run r carries.
EventContent(r, k) ==
    events[r][CHOOSE i \in 1..Len(events[r]) : events[r][i].event = k].data.content

\* What GET /generations/{id} returns for attribute a of the record of run r.
ReadBack(r, a) == get_generation(record[r]["id"]).body[a]

\* C2: when the block of a selected kind k fails, no progress or artifact
\* event and no generation call exists for a later kind, no complete event
\* exists, and every selected kind before k reads back from the run's
\* record with the content of its artifact event.
C2_HaltOnFailure ==
    \A r \in Runs : \A k \in Kinds :
        BlockFailed(r, k) =>
            /\ LET tags == Tags(events[r])
               IN \A i \in 1..Len(tags) : Rank(tags[i][1]) <= Rank(k)
            /\ \A j \in CalledKinds(r) : Rank(j) <= Rank(k)
            /\ ~Has(events[r], "complete")
            /\ \A j \in Selected(r) :
                  Rank(j) < Rank(k) =>
                      /\ j \in ArtifactKinds(r)
                      /\ ReadBack(r, j) = EventContent(r, j)

\* C3: a progress completed event directly follows the artifact event of
\* its kind, which directly follows the progress started event of its kind;
\* a kind whose commit returned has, once the run is over, exactly one event
\* of each of the three, in that order.
C3_ThreeEventsPerKind ==
    \A r \in Runs :
        LET evs == events[r]
            tags == Tags(evs)
        IN /\ \A i \in 1..Len(evs) :
                 /\ (IsProgress(evs[i]) /\ evs[i].data.status = "completed") =>
                        /\ i >= 3
                        /\ IsArtifact(evs[i - 1])
                        /\ evs[i - 1].event = EventKind(evs[i])
                 /\ IsArtifact(evs[i]) =>
                        /\ i >= 2
                        /\ IsProgress(evs[i - 1])
                        /\ Tag(evs[i - 1]) = <<evs[i].event, "started">>
           /\ pc[r] = At("done") =>
                 \A k \in CommittedKinds(r) :
                    \A t \in {"started", "artifact", "completed"} :
                       Cardinality({i \in 1..Len(tags) : tags[i] = <<k, t>>}) = 1

\* A finished run has processed two kinds.
C3_Witness ==
    \E r \in Runs :
        /\ pc[r] = At("done")
        /\ CommittedKinds(r) = {"db_schema", "backend_code"}
        /\ Tags(events[r]) = Canonical({"db_schema", "backend_code"}, 1)

\* C4: no progress event, artifact event or generation call of a run is
\* about a kind outside its selected set, a run that emitted complete has
\* emitted an artifact event for exactly the selected kinds, and the
\* selection of a run changes only when the request arrives and when it is
\* resolved, which is before the first generation call and the first
\* progress event.
C4_FixedArtifactSet ==
    /\ [](\A r \in Runs :
            /\ LET tags == Tags(events[r])
               IN \A i \in 1..Len(tags) : tags[i][1] \in Selected(r)
            /\ CalledKinds(r) \subseteq Selected(r)
            /\ Has(events[r], "complete") => ArtifactKinds(r) = Selected(r))
    /\ [][\A r \in Runs :
            generate_types'[r] # generate_types[r] =>
                /\ pc[r].at \in {"idle", "resolve"}
                /\ CalledKinds(r) = {}
                /\ ~Has(events[r], "progress")]_vars

\* A run whose caller selected nothing and whose classifier named no
\* component has emitted complete for the default selection.
C4_Witness ==
    \E r \in Runs :
        /\ Has(events[r], "complete")
        /\ analysis[r].components_needed = {}
        /\ ArtifactKinds(r) = {"backend_code"}

\* C5: whenever the artifact event of a kind has been emitted, the commit
\* of the kind has returned and the content of the event reads back from
\* the run's record in the store.
C5_CommittedBeforeArtifact ==
    \A r \in Runs : \A k \in ArtifactKinds(r) :
        /\ k \in CommittedKinds(r)
        /\ record[r]["id"] \in DOMAIN store
        /\ ReadBack(r, k) = EventContent(r, k)

\* The config event of a run.
ConfigOf(r) == events[r][CHOOSE i \in 1..Len(events[r]) : events[r][i].event = "config"]

\* C6: after a run, every kind whose artifact event was emitted reads back
\* by id with the content of the event (the record has a persisted field for
\* each of the six kinds), and the frontend framework of the config event
\* reads back as well.
C6_RecordRoundTrip ==
    \A r \in Runs :
        pc[r] = At("done") =>
            /\ \A k \in ArtifactKinds(r) : ReadBack(r, k) = EventContent(r, k)
            /\ Has(events[r], "config") =>
                  ReadBack(r, "frontend_framework") = ConfigOf(r).data.frontend_framework

\* No progress or artifact event of a run precedes its config event, and
\* there is at most one config event.
ConfigFirst(r) ==
    /\ Count(events[r], "config") <= 1
    /\ \A i \in 1..Len(events[r]) :
          IsStepEvent(events[r][i]) => \E j \in 1..(i - 1) : events[r][j].event = "config"

\* C7 as stated: the stream of a finished complete run begins with the one
\* config event and its last event is complete{id of the run's record}.
C7_EndsWithComplete ==
    \A r \in Runs :
        /\ ConfigFirst(r)
        /\ (pc[r] = At("done") /\ Has(events[r], "complete")) =>
              /\ events[r][1].event = "config"
              /\ Count(events[r], "config") = 1
              /\ events[r][Len(events[r])].event = "complete"
              /\ events[r][Len(events[r])].data.id = record[r]["id"]

\* C7 amended: the stream of a finished complete run begins with the one
\* config event, holds one complete event, which carries the id of the
\* run's record, and complete is the last event or is followed by one
\* warning event only.
C7_CompleteThenAtMostWarning ==
    \A r \in Runs :
        /\ ConfigFirst(r)
        /\ (pc[r] = At("done") /\ Has(events[r], "complete")) =>
              LET evs == events[r]
                  n == CHOOSE i \in 1..Len(evs) : evs[i].event = "complete"
              IN /\ evs[1].event = "config"
                 /\ Count(evs, "config") = 1
                 /\ Count(evs, "complete") = 1
                 /\ evs[n].data.id = record[r]["id"]
                 /\ record[r]["id"] \in DOMAIN store
                 /\ n >= Len(evs) - 1
                 /\ n = Len(evs) - 1 => evs[Len(evs)].event = "warning"

\* A finished run whose staged file could not be deleted: a warning follows complete.
C7_Witness ==
    \E r \in Runs :
        /\ pc[r] = At("done")
        /\ Has(events[r], "complete")
        /\ events[r][Len(events[r])].event = "warning"

\* C8: a run that emitted complete has called the generation of every
\* selected kind and the commit of each has returned; a finished run that
\* got to its config event and whose selected kinds all have a returned
\* commit has emitted complete; no run has both an error and a complete event.
C8_CompleteIffAllSucceeded ==
    \A r \in Runs :
        /\ Has(events[r], "complete") =>
              /\ Selected(r) \subseteq CalledKinds(r)
              /\ Selected(r) \subseteq CommittedKinds(r)
        /\ (pc[r] = At("done") /\ Has(events[r], "config")
              /\ Selected(r) \subseteq CommittedKinds(r)) => Has(events[r], "complete")
        /\ ~(Has(events[r], "error") /\ Has(events[r], "complete"))

\* A finished run that selected all six kinds has emitted complete.
C8_Witness ==
    \E r \in Runs :
        /\ pc[r] = At("done")
        /\ Selected(r) = Kinds
        /\ Has(events[r], "complete")

\* C9: a run that has emitted an error event is finished, the error event
\* is its only one and its last event, and from then on its events, its
\* calls, its commits and its row in the store never change.
C9_FailedAbsorbing ==
    /\ [](\A r \in Runs :
            Has(events[r], "error") =>
                /\ pc[r] = At("done")
                /\ Count(events[r], "error") = 1
                /\ events[r][Len(events[r])].event = "error")
    /\ [][\A r \in Runs :
            Has(events[r], "error") =>
                /\ events'[r] = events[r]
                /\ calls'[r] = calls[r]
                /\ commits'[r] = commits[r]
                /\ record[r]["id"] \in DOMAIN store =>
                      store'[record[r]["id"]] = store[record[r]["id"]]]_vars

\* A run has emitted an error event after two kinds were committed.
C9_Witness ==
    \E r \in Runs :
        /\ Has(events[r], "error")
        /\ CommittedKinds(r) = {"ui_code", "db_schema"}

\* C10: a run one of whose commits raised is finished, its last event is
\* its one error event, it has no complete event, the failed commit wrote
\* nothing, and its calls end where the commit failed: no call at all when
\* the record or the description could not be persisted, no generation call
\* when the stack decision could not, and the generation call of the kind as
\* the last call when the commit of a kind failed.
C10_PersistenceFailureFatal ==
    \A r \in Runs :
        failed[r] # "none" =>
            /\ pc[r] = At("done")
            /\ events[r] # << >>
            /\ events[r][Len(events[r])].event = "error"
            /\ Count(events[r], "error") = 1
            /\ ~Has(events[r], "complete")
            /\ failed[r] \in {"create_record", "persist_description"} => calls[r] = << >>
            /\ failed[r] = "persist_stack" => CalledKinds(r) = {}
            /\ failed[r] \in Kinds =>
                  /\ calls[r][Len(calls[r])] = failed[r]
                  /\ failed[r] \notin CommittedKinds(r)
                  /\ failed[r] \notin ArtifactKinds(r)

\* The commit of the description of a run has raised.
C10_Witness ==
    \E r \in Runs :
        /\ failed[r] = "persist_description"
        /\ pc[r] = At("done")

\* The prompt holds a keyword of the client's artifact detection.
MatchesArtifactKeyword(text) ==
    \E k \in Kinds : \E kw \in FrontendKeywords(k) : WordMatch(kw, text)

\* C11: when a run with a non-empty prompt that holds no artifact keyword,
\* whose classifier named no component and whose selection is empty or the
\* one the client derived from the prompt, resolves its selection, the
\* resolved selection is all six kinds.
C11_AmbiguousPromptDefault ==
    [][\A r \in Runs :
          (/\ pc[r] = At("resolve")
           /\ pc'[r] # pc[r]
           /\ prompt[r] # << >>
           /\ ~MatchesArtifactKeyword(prompt[r])
           /\ analysis[r].components_needed = {}
           /\ \/ ~AnyTrue(generate_types[r])
              \/ generate_types[r] = frontend_determine_generation_types(prompt[r]))
          => {k \in Kinds : generate_types'[r][k]} = Kinds]_vars

\* C12: a run whose caller selected at least one kind keeps that selection
\* when it resolves, whatever components the classifier named; the
\* selection changes at resolution only for a caller that selected no kind,
\* and then to the selection derived from the classifier; the same holds for
\* the resolution of generate_components.
C12_CallerSelectionWins ==
    /\ [](\A r \in Runs :
            pc[r] = At("resolve") =>
                \A gt \in Selections :
                    AnyTrue(gt) => generate_components_types(TRUE, gt, analysis[r]) = gt)
    /\ [][\A r \in Runs :
            (pc[r] = At("resolve") /\ pc'[r] # pc[r]) =>
                /\ AnyTrue(generate_types[r]) => generate_types'[r] = generate_types[r]
                /\ generate_types'[r] # generate_types[r] =>
                      /\ ~AnyTrue(generate_types[r])
                      /\ generate_types'[r] = determine_generation_types(analysis[r])]_vars

\* A run whose caller selected the schema and the queries, and whose
\* classifier named three other components, has emitted complete.
C12_Witness ==
    \E r \in Runs :
        /\ Has(events[r], "complete")
        /\ analysis[r].components_needed = {"ui_code", "er_diagram", "tech_docs"}
        /\ ArtifactKinds(r) = {"db_schema", "db_queries"}

\* The calls of a run include the call of a function.
Called(r, name) == \E i \in 1..Len(calls[r]) : calls[r][i] = name

\* The decisions analyze_request returns.
IsAnalysis(a) ==
    /\ a.language \in {"python", "javascript", "java"}
    /\ a.code_type \in {"simple_function", "web_api", "script", "algorithm"}
    /\ a.components_needed \subseteq Kinds

\* The decisions detect_stack_with_langchain returns.
IsStackDecision(st) ==
    /\ st.backend_language \in {"python", "javascript", "java"}
    /\ st.framework # "None"
    /\ st.frontend_framework \in {"react", "vue", "angular", "html", "None"}

\* C13: every call of analyze_request and of detect_stack_with_langchain
\* returns a decision, whether the model call succeeded or not; the step of
\* either call emits no event and the run goes on; an error event of a run
\* that made no generation call comes from a failed commit or table check,
\* never from classification; a finished run whose commits up to the stack
\* decision returned has emitted its config event.
C13_ClassificationTotal ==
    /\ [](\A r \in Runs :
            /\ Called(r, "analyze_request") => IsAnalysis(analysis[r])
            /\ Called(r, "detect_stack_with_langchain") => IsStackDecision(stack[r])
            /\ (Has(events[r], "error") /\ CalledKinds(r) = {}) =>
                  \/ failed[r] \in {"create_record", "persist_description", "persist_stack"}
                  \/ calls[r] = << >>
            /\ (pc[r] = At("done") /\ Called(r, "analyze_request") /\ failed[r] = "none") =>
                  Has(events[r], "config"))
    /\ [][\A r \in Runs :
            (pc[r].at \in {"analyze", "detect_stack"} /\ pc'[r] # pc[r]) =>
                /\ events'[r] = events[r]
                /\ pc'[r].at \in {"detect_stack", "persist_stack"}]_vars

\* Both model-assisted classifications of a run failed; the run, started
\* with the rule-based decisions, has emitted complete.
C13_Witness ==
    \E r \in Runs :
        /\ analysis[r] = AnalysisFallback
        /\ stack[r].framework = "spring"
        /\ Has(events[r], "config")
        /\ Has(events[r], "complete")

\* C14: the language, framework and frontend framework of the config event
\* of a run read back from its record, the generate_backend_code call of the
\* run got the language of the config event and chose the web-API template
\* exactly when the config event's use_framework is true, and the
\* generate_ui_code call chose the template of the config event's frontend
\* framework.
C14_SingleStackDecision ==
    \A r \in Runs :
        Has(events[r], "config") =>
            LET c == ConfigOf(r).data
            IN /\ ReadBack(r, "backend_language") = c.backend_language
               /\ ReadBack(r, "framework") = c.framework
               /\ ReadBack(r, "frontend_framework") = c.frontend_framework
               /\ "backend_code" \in CalledKinds(r) =>
                     /\ invoked[r]["backend_code"].language = c.backend_language
                     /\ (invoked[r]["backend_code"].template = "web_api") <=> c.use_framework
               /\ "ui_code" \in CalledKinds(r) =>
                     invoked[r]["ui_code"].template = UiTemplate(c.frontend_framework)

\* C15: in a run whose request carries backend_language and
\* frontend_framework parameters, the config event reports these values,
\* the generate_backend_code call gets that language and the
\* generate_ui_code call chooses the template of that frontend framework.
C15_OverrideApplied ==
    \A r \in Runs :
        override[r] # NoOverride =>
            /\ Has(events[r], "config") =>
                  /\ ConfigOf(r).data.backend_language = override[r].backend_language
                  /\ ConfigOf(r).data.frontend_framework = override[r].frontend_framework
            /\ "backend_code" \in CalledKinds(r) =>
                  invoked[r]["backend_code"].language = override[r].backend_language
            /\ "ui_code" \in CalledKinds(r) =>
                  invoked[r]["ui_code"].template = UiTemplate(override[r].frontend_framework)

IsKind(c) == c \in Kinds

\* The generation calls of a run, in the order they were made.
KindCalls(r) == SelectSeq(calls[r], IsKind)

\* The generation calls of a run that have neither returned (the record
\* object has no text of the kind yet) nor raised (no error event).
InFlight(r) ==
    {k \in CalledKinds(r) : record[r][k] = None /\ ~Has(events[r], "error")}

\* C16: a run has at most one generation call in flight, and every
\* generation call of the run but the last one has returned, its commit has
\* returned and its progress completed event has been emitted.
C16_OneAtATime ==
    \A r \in Runs :
        LET cs == KindCalls(r)
            tags == Tags(events[r])
        IN /\ Cardinality(InFlight(r)) <= 1
           /\ \A i \in 1..(Len(cs) - 1) :
                 /\ cs[i] \notin InFlight(r)
                 /\ cs[i] \in CommittedKinds(r)
                 /\ \E j \in 1..Len(tags) : tags[j] = <<cs[i], "completed">>

\* The third generation call of a run is in flight.
C16_Witness ==
    \E r \in Runs :
        /\ Len(KindCalls(r)) = 3
        /\ InFlight(r) = {"tech_docs"}
        /\ pc[r] = AtKind("await", "tech_docs")

\* C17: the generation calls of a run are made in strictly increasing order
\* of their kinds, so no kind is called twice; and when the block of a kind
\* has failed, the call of that kind is the last call of the run.
C17_AtMostOnce ==
    \A r \in Runs :
        LET cs == KindCalls(r)
        IN /\ \A i \in 1..(Len(cs) - 1) : Rank(cs[i]) < Rank(cs[i + 1])
           /\ \A i, j \in 1..Len(cs) : cs[i] = cs[j] => i = j
           /\ \A k \in Kinds :
                 BlockFailed(r, k) =>
                     /\ cs # << >>
                     /\ cs[Len(cs)] = k
                     /\ pc[r] = At("done")

\* The second generation call of a run has failed.
C17_Witness ==
    \E r \in Runs :
        /\ BlockFailed(r, "db_schema")
        /\ failed[r] = "none"
        /\ KindCalls(r) = <<"ui_code", "db_schema">>

\* C18: a step of a run changes an artifact attribute of its record object
\* only when the generation call of that kind returns, and an artifact
\* column of its row only in the commit of that kind; once the commit of a
\* kind has returned, neither the attribute nor the column changes again,
\* through later blocks, a later failure and the end of the run; and the
\* column of a committed kind holds the text the call returned.
C18_OwnFieldOnly ==
    /\ [](\A r \in Runs : \A k \in CommittedKinds(r) \cap MappedColumns :
            /\ record[r]["id"] \in DOMAIN store
            /\ store[record[r]["id"]][k] = record[r][k]
            /\ record[r][k] # None)
    /\ [][\A r \in Runs : \A k \in Kinds :
            /\ record'[r][k] # record[r][k] => pc[r] = AtKind("await", k)
            /\ k \in CommittedKinds(r) => record'[r][k] = record[r][k]
            /\ (record[r]["id"] \in DOMAIN store /\ k \in MappedColumns) =>
                  /\ store'[record[r]["id"]][k] # store[record[r]["id"]][k] =>
                        pc[r] = AtKind("commit", k)
                  /\ k \in CommittedKinds(r) =>
                        store'[record[r]["id"]][k] = store[record[r]["id"]][k]]_vars

\* A run halted by a failure after the commits of two kinds, whose row
\* still holds the two texts.
C18_Witness ==
    \E r \in Runs :
        /\ pc[r] = At("done")
        /\ Has(events[r], "error")
        /\ CommittedKinds(r) = {"ui_code", "db_schema"}
        /\ ReadBack(r, "ui_code") = EventContent(r, "ui_code")
        /\ ReadBack(r, "db_schema") = EventContent(r, "db_schema")
        /\ ReadBack(r, "backend_code") = None

\* The run has made the commit that creates its record.
Created(r) == \E i \in 1..Len(commits[r]) : commits[r][i] = "record"

\* C19: with two runs interleaved, the records of the two runs are two rows
\* with different ids, the row of a run holds the staged file, the prompt,
\* the description and the stack of that run, the step events of each run
\* are a prefix of the canonical sequence of its selection, a run with an
\* error event is finished with that event as its last one, and a step of
\* one run leaves the events, the calls, the commits, the record object,
\* the position and the row of the other run as they are.
C19_RunsIndependent ==
    /\ [](\A r \in Runs :
            /\ Created(r) =>
                  /\ record[r]["id"] \in DOMAIN store
                  /\ \A q \in Runs \ {r} : record[q]["id"] # record[r]["id"]
                  /\ store[record[r]["id"]]["image_path"] = file_path[r]
                  /\ store[record[r]["id"]]["prompt"] = prompt[r]
                  /\ store[record[r]["id"]]["description"] \in {None, full_description[r]}
                  /\ store[record[r]["id"]]["backend_language"] \in
                        {"None", stack[r].backend_language}
                  /\ \A k \in CommittedKinds(r) \cap MappedColumns :
                        store[record[r]["id"]][k] = record[r][k]
            /\ IsPrefix(Tags(events[r]), Canonical(Selected(r), 1))
            /\ Has(events[r], "error") =>
                  /\ pc[r] = At("done")
                  /\ events[r][Len(events[r])].event = "error"
                  /\ ~Has(events[r], "complete")
            /\ (pc[r] = At("done") /\ ~Has(events[r], "error")) =>
                  /\ Has(events[r], "complete")
                  /\ Tags(events[r]) = Canonical(Selected(r), 1))
    /\ [][\E r \in Runs : \A q \in Runs \ {r} :
            /\ pc'[q] = pc[q]
            /\ events'[q] = events[q]
            /\ calls'[q] = calls[q]
            /\ commits'[q] = commits[q]
            /\ failed'[q] = failed[q]
            /\ record'[q] = record[q]
            /\ record[q]["id"] \in DOMAIN store =>
                  store'[record[q]["id"]] = store[record[q]["id"]]]_vars

\* The run of the first client was halted by the failure of its generation
\* call; the run of the second client, whose record was created first, has
\* emitted complete.
C19_Witness ==
    /\ BlockFailed(1, "backend_code")
    /\ record[1]["id"] = 2
    /\ record[2]["id"] = 1
    /\ Has(events[2], "complete")
    /\ store[1]["image_path"] = StagedFile(2)
    /\ store[2]["image_path"] = StagedFile(1)

\* C20: the table has one row per run that passed record creation, each
\* with its own id; a run has created its record before it makes any
\* classification or generation call; a step adds at most one row, with an
\* id above every id of the table and with no artifact yet; and the row of a
\* finished run, halted or complete, is never changed again, whatever the
\* other run does.
C20_FreshRecordPerRun ==
    /\ [](/\ Cardinality(DOMAIN store) = Cardinality({r \in Runs : Created(r)})
          /\ \A r \in Runs :
                /\ Created(r) <=> record[r]["id"] \in DOMAIN store
                /\ calls[r] # << >> => Created(r)
                /\ Created(r) => \A q \in Runs \ {r} : record[q]["id"] # record[r]["id"])
    /\ [][/\ DOMAIN store \subseteq DOMAIN store'
          /\ Cardinality(DOMAIN store' \ DOMAIN store) <= 1
          /\ \A id \in DOMAIN store' \ DOMAIN store :
                /\ \A old \in DOMAIN store : id > old
                /\ \A k \in Kinds \cap MappedColumns : store'[id][k] = None
                /\ \E r \in Runs : pc[r] = At("create_record") /\ record'[r]["id"] = id
          /\ \A r \in Runs :
                (pc[r] = At("done") /\ Created(r)) =>
                    store'[record[r]["id"]] = store[record[r]["id"]]]_vars

\* The run of the first client halted when its generation call failed; the
\* same request, sent again, got a second record and has emitted complete.
C20_Witness ==
    /\ pc[1] = At("done")
    /\ BlockFailed(1, "backend_code")
    /\ record[1]["id"] = 1
    /\ store[1]["backend_code"] = None
    /\ prompt[2] = prompt[1]
    /\ record[2]["id"] = 2
    /\ Has(events[2], "complete")
    /\ store[2]["backend_code"] # None
    /\ DOMAIN store = {1, 2}

\* The index of the complete event of a run that has one.
CompleteAt(r) == CHOOSE i \in 1..Len(events[r]) : events[r][i].event = "complete"

\* C21: the staged file of a run is there until the run has emitted
\* complete; a finished run with a staged file that emitted complete has
\* deleted the file or has emitted a warning event; a warning event comes
\* after the complete event, is the last event, and its run has no error
\* event and no failed commit.
C21_CleanupWarning ==
    \A r \in Runs :
        /\ (file_path[r] # "None" /\ ~Has(events[r], "complete")) => file_path[r] \in files
        /\ (pc[r] = At("done") /\ Has(events[r], "complete") /\ file_path[r] # "None") =>
              \/ file_path[r] \notin files
              \/ events[r][Len(events[r])].event = "warning"
        /\ Has(events[r], "warning") =>
              /\ Has(events[r], "complete")
              /\ CompleteAt(r) = Len(events[r]) - 1
              /\ events[r][Len(events[r])].event = "warning"
              /\ Count(events[r], "warning") = 1
              /\ ~Has(events[r], "error")
              /\ failed[r] = "none"
              /\ pc[r] = At("done")

\* A run with every kind selected has emitted complete, then failed to
\* delete its staged file and emitted a warning.
C21_Witness ==
    \E r \in Runs :
        /\ Has(events[r], "warning")
        /\ file_path[r] \in files
        /\ CommittedKinds(r) = Kinds
        /\ failed[r] = "none"

\* The description of a run begins with the extraction sentinel.
SentinelDescription(r) ==
    /\ Len(full_description[r]) >= 1
    /\ full_description[r][1] = ExtractionSentinel[1]

\* C22: the extraction step of a run emits no event and leads to the
\* commit of the description, whose text begins with the extracted text or
\* with the sentinel; a run whose description begins with the sentinel has
\* no error event unless a commit or a generation call failed, and a
\* finished one whose commits and calls all returned has emitted complete.
C22_ExtractionDegraded ==
    /\ [](\A r \in Runs :
            SentinelDescription(r) =>
                /\ Has(events[r], "error") => (failed[r] # "none" \/ CalledKinds(r) # {})
                /\ (pc[r] = At("done") /\ ~Has(events[r], "error")) =>
                      /\ Has(events[r], "config")
                      /\ Has(events[r], "complete")
                      /\ store[record[r]["id"]]["description"] = full_description[r])
    /\ [][\A r \in Runs :
            (pc[r] = At("extract") /\ pc'[r] # pc[r]) =>
                /\ events'[r] = events[r]
                /\ pc'[r] = At("persist_description")
                /\ file_path[r] # "None" =>
                      \E t \in ExtractedTexts :
                          full_description'[r] =
                              t \o <<"\n\nUser Requirements: ">> \o prompt[r]]_vars

\* A run whose extraction failed was classified and has emitted complete.
C22_Witness ==
    \E r \in Runs :
        /\ SentinelDescription(r)
        /\ Called(r, "analyze_request")
        /\ Called(r, "detect_stack_with_langchain")
        /\ Has(events[r], "complete")
        /\ ~Has(events[r], "error")

\* C23: applying remove_think_tags to its own result gives that result again.
C23_Idempotent ==
    Len(cleaned) >= 2 => cleaned[2] = cleaned[1]

\* The text holds an opening marker followed, somewhere, by a closing one.
HasPair(t) ==
    \E i, j \in 1..Len(Join(t)) :
        i < j /\ Join(t)[i] = "<think>" /\ Join(t)[j] = "</think>"

\* C24 as stated: remove_think_tags returns a text without a marker pair as it is.
C24_UnchangedWithoutMarkers ==
    (~HasPair(arg) /\ Len(cleaned) >= 1) => cleaned[1] = Join(arg)

\* C24 amended: remove_think_tags returns a text without a marker pair with
\* its leading and trailing whitespace removed and otherwise as it is.
C24_TrimmedWithoutMarkers ==
    (~HasPair(arg) /\ Len(cleaned) >= 1) => cleaned[1] = RStrip(LStrip(Join(arg)))

\* A text with whitespace at both ends and a lone opening marker has been cleaned.
C24_Witness ==
    /\ arg = <<" ", "<think>", "a", " ">>
    /\ cleaned = <<<<"<think>", "a">>>>

\* The stack decision of the run was made by the rules of
\* detect_stack_fallback and detect_frontend_framework, and its analysis is
\* the one of the except block of analyze_request.
RuleBased(r) ==
    /\ stack[r] # NoStack
    /\ stack[r] \notin StackResults
    /\ analysis[r] = AnalysisFallback

\* C26: a complete run of the prompt "Generate a REST API in python with a
\* users table, include documentation", classified by the rules, reports
\* python with use_framework true in its config event, has at least
\* db_schema, backend_code and tech_docs in its resolved selection, and its
\* events are config, then started, artifact, completed of each selected
\* kind, then complete with the id of the record.
C26_RestApiExample ==
    \A r \in Runs :
        (/\ prompt[r] = RestApiPrompt
         /\ file_path[r] = "None"
         /\ RuleBased(r)
         /\ Has(events[r], "complete")) =>
            /\ events[r][1].event = "config"
            /\ events[r][1].data.backend_language = "python"
            /\ events[r][1].data.use_framework
            /\ {"db_schema", "backend_code", "tech_docs"} \subseteq Selected(r)
            /\ Tags(events[r]) = Canonical(Selected(r), 1)
            /\ Len(events[r]) = 2 + Len(Canonical(Selected(r), 1))
            /\ events[r][Len(events[r])] = Event("complete", [id |-> record[r]["id"]])

\* C29: generate_backend_code chooses among three templates: core_script
\* for a script without a framework, simple_function for a simple function
\* or another request without a framework, web_api for a request with a
\* framework.
C29_ThreeTemplates ==
    \A r \in Runs :
        "backend_code" \in CalledKinds(r) =>
            invoked[r]["backend_code"].template =
                IF analysis[r].code_type = "script" /\ ~analysis[r].requires_framework
                THEN "core_script"
                ELSE IF analysis[r].code_type = "simple_function"
                        \/ ~analysis[r].requires_framework
                THEN "simple_function"
                ELSE "web_api"

\* C30: for the prompt "write a function that prints numbers 1 to 10" the
\* rules decide use_framework false, the fallback analysis has code_type
\* simple_function, and generate_backend_code then renders the
\* simple_function template with framework "none"; in every run, an analysis
\* with code_type simple_function or without requires_framework gets the
\* simple_function template.
C30_SimpleFunctionTemplate ==
    \A r \in Runs :
        /\ (prompt[r] = PrintNumbersPrompt /\ RuleBased(r)) =>
              /\ ~stack[r].use_framework
              /\ analysis[r].code_type = "simple_function"
              /\ "backend_code" \in CalledKinds(r) =>
                    /\ invoked[r]["backend_code"].template = "simple_function"
                    /\ invoked[r]["backend_code"].framework = "none"
        /\ ("backend_code" \in CalledKinds(r)
            /\ (analysis[r].code_type = "simple_function"
                \/ ~analysis[r].requires_framework)) =>
              invoked[r]["backend_code"].template = "simple_function"

\* A run of the prompt about printing numbers, classified by the rules, has
\* called generate_backend_code and has emitted complete.
C30_Witness ==
    \E r \in Runs :
        /\ prompt[r] = PrintNumbersPrompt
        /\ file_path[r] = "None"
        /\ RuleBased(r)
        /\ invoked[r]["backend_code"] =
              [template |-> "simple_function", language |-> "python", framework |-> "none"]
        /\ Has(events[r], "complete")

\* The run has been accepted and its stream has started.
Started(r) == pc[r].at \notin {"idle", "rejected"}

\* The number of terminal events of a run.
Terminals(r) == Count(events[r], "complete") + Count(events[r], "error")

\* C27: when every call returns or raises, from some point on every started
\* run has ended with exactly one complete or error event (a started run
\* stays started); no run ever holds two terminal events, and a run that
\* has ended emits nothing more.
C27_Terminates ==
    /\ <>[](\A r \in Runs : Started(r) => (pc[r] = At("done") /\ Terminals(r) = 1))
    /\ [](\A r \in Runs : Terminals(r) <= 1)
    /\ [][\A r \in Runs : pc[r] = At("done") => (pc'[r] = pc[r] /\ events'[r] = events[r])]_vars

\* A run has ended with an error event after a generation call timed out.
C27_Witness ==
    \E r \in Runs :
        /\ pc[r] = At("done")
        /\ Terminals(r) = 1
        /\ "backend_code" \in CalledKinds(r) \ CommittedKinds(r)
        /\ events[r][Len(events[r])] =
              ErrorEvent(ErrorPrefix("backend_code"), <<ErrorPrefix("backend_code"), "timeout">>)

LowerText(t) == [i \in 1..Len(t) |-> Lower(t[i])]

\* The language and framework the rules returned.
DecidedPair == <<decision[1].stack.backend_language, decision[1].stack.framework>>

\* C31: the rules return javascript with express for a description that
\* contains "javascript" or "node", else java with spring for one that
\* contains "java", else python with fastapi; the pair is one of these three
\* and is the same for the lower-cased description.
C31_LanguageRules ==
    decision # << >> =>
        /\ DecidedPair \in {<<"javascript", "express">>, <<"java", "spring">>,
                            <<"python", "fastapi">>}
        /\ DecidedPair =
              IF Contains("javascript", arg) \/ Contains("node", arg)
              THEN <<"javascript", "express">>
              ELSE IF Contains("java", arg) THEN <<"java", "spring">>
              ELSE <<"python", "fastapi">>
        /\ decision[1].stack = detect_stack_fallback(LowerText(arg))

\* A description with "java" and, after it, "Node" was classified as javascript.
C31_Witness ==
    /\ arg = <<"java", " ", "Node">>
    /\ decision # << >>
    /\ DecidedPair = <<"javascript", "express">>

\* C32: the rules return use_framework true exactly for a description that
\* contains one of api, server, web, endpoint, rest and none of function,
\* print, calculate, loop, algorithm, script.
C32_UseFrameworkRule ==
    decision # << >> =>
        (decision[1].stack.use_framework <=>
            /\ \E kw \in {"api", "server", "web", "endpoint", "rest"} : Contains(kw, arg)
            /\ \A kw \in {"function", "print", "calculate", "loop", "algorithm", "script"} :
                  ~Contains(kw, arg))

\* A description with a server keyword and a simple keyword was classified
\* without framework.
C32_Witness ==
    /\ arg = <<"server", " ", "loop">>
    /\ decision # << >>
    /\ ~decision[1].stack.use_framework

\* The frontend keywords in their order of precedence; the last three stand for html.
FrontendPrecedence == <<"react", "vue", "angular", "html", "webpage", "website">>

\* C33: detect_frontend_framework returns the framework of the first
\* keyword, in the order react, vue, angular, generic html keywords, that
\* occurs in the description, and null only when none occurs.
C33_FrontendPrecedence ==
    decision # << >> =>
        LET found == {i \in 1..Len(FrontendPrecedence) : Contains(FrontendPrecedence[i], arg)}
            first == CHOOSE i \in found : \A j \in found : i <= j
        IN /\ found = {} <=> decision[1].frontend_framework = "None"
           /\ found # {} =>
                 decision[1].frontend_framework =
                     IF first >= 4 THEN "html" ELSE FrontendPrecedence[first]

\* A description that names html, vue and React, in this order, was classified as react.
C33_Witness ==
    /\ arg = <<"html", "vue", "React">>
    /\ decision # << >>
    /\ decision[1].frontend_framework = "react"

\* C36: the rules return use_framework false for every description that
\* contains "javascript", whatever else it contains; when they return
\* javascript with use_framework true the description contains "node" and
\* not "javascript".
C36_JavascriptIsSimple ==
    decision # << >> =>
        /\ Contains("javascript", arg) => ~decision[1].stack.use_framework
        /\ (decision[1].stack.backend_language = "javascript"
            /\ decision[1].stack.use_framework) =>
              (Contains("node", arg) /\ ~Contains("javascript", arg))

\* A description of a JavaScript API was classified as javascript without framework.
C36_Witness ==
    /\ arg = <<"JavaScript", " ", "API">>
    /\ decision # << >>
    /\ decision[1].stack = [backend_language |-> "javascript", framework |-> "express",
                            use_framework |-> FALSE]

\* The call of kind k of run r has returned or raised.
Returned(r, k) == k \in CalledKinds(r) /\ pc[r] # AtKind("await", k)

\* The last event of the run.
LastEvent(r) == events[r][Len(events[r])]

\* The generate_* call of kind k of run r raised: the run ended with the
\* error event of the block, whose message is the prefix of the block
\* followed by what the function raised, the prefix of the kind and the
\* cause.
RaisedTagged(r, k) ==
    /\ pc[r] = At("done")
    /\ events[r] # << >>
    /\ \E cause \in LLMErrors :
          LastEvent(r) = ErrorEvent(ErrorPrefix(k), <<ErrorPrefix(k), cause>>)

\* C34: a generate_* call that is over has returned a text cleaned by
\* remove_think_tags, which the run holds on its record, or has raised a
\* failure that names the kind and carries the cause, which the error event
\* of the block reports; an error event that carries the cause of a model
\* call is the last event and names the last kind called.
C34_KindTaggedFailure ==
    \A r \in Runs :
        /\ \A k \in Kinds :
              Returned(r, k) =>
                  \/ \E raw \in LLMOutputs(k) : record[r][k] = remove_think_tags(raw)
                  \/ /\ record[r][k] = None
                     /\ RaisedTagged(r, k)
        /\ \A i \in 1..Len(events[r]) :
              (/\ events[r][i].event = "error"
               /\ \E j \in 1..Len(events[r][i].data.message) :
                     events[r][i].data.message[j] \in LLMErrors) =>
                  /\ i = Len(events[r])
                  /\ calls[r][Len(calls[r])] \in Kinds
                  /\ RaisedTagged(r, calls[r][Len(calls[r])])

\* The model call of generate_db_schema timed out after the UI code was
\* generated: the run ended with the error event of the DB schema block.
C34_Witness ==
    \E r \in Runs :
        /\ Returned(r, "ui_code")
        /\ record[r]["ui_code"] # None
        /\ Returned(r, "db_schema")
        /\ RaisedTagged(r, "db_schema")

\* The text extraction of a run returned: nothing without a staged file,
\* else one of the texts file_to_text returns.
ExtractedOf(r) ==
    IF file_path[r] = "None" THEN {<< >>} ELSE ExtractedTexts \cup {ExtractionSentinel}

\* C35: once it is built, and in every run that made a call, the full
\* description of a run is the extracted text (empty without a file),
\* "\n\nUser Requirements: " and the raw prompt; it is the description of
\* the record, of the row once a commit has returned, and the argument of
\* every classification and generation call of the run.
C35_FullDescription ==
    \A r \in Runs :
        (full_description[r] # << >> \/ calls[r] # << >>) =>
            /\ full_description[r] \in
                  {t \o <<"\n\nUser Requirements: ">> \o prompt[r] : t \in ExtractedOf(r)}
            /\ record[r]["description"] = full_description[r]
            /\ Called(r, "analyze_request") =>
                  store[record[r]["id"]]["description"] = full_description[r]
            /\ Len(passed[r]) = Len(calls[r])
            /\ \A i \in 1..Len(passed[r]) : passed[r][i] = full_description[r]

\* A run with a staged file has emitted complete after two generation
\* calls; the row holds the text of the file, the separator and the prompt.
C35_Witness ==
    \E r \in Runs :
        /\ Has(events[r], "complete")
        /\ Cardinality(CalledKinds(r)) = 2
        /\ prompt[r] = <<"hello">>
        /\ store[record[r]["id"]]["description"] =
              <<"website", " ", "react", "\n\nUser Requirements: ", "hello">>
        /\ Len(passed[r]) = 4

\* C37: once the table holds a record, GET /generations/{id} answers 200
\* with the fields of the row for the id of a record, and 404 for the next
\* id, which has no record.
C37_NotFound ==
    store # << >> =>
        \A id \in 1..(Len(store) + 1) :
            IF id \in DOMAIN store
            THEN /\ get_generation(id).status = 200
                 /\ \A a \in MappedColumns : get_generation(id).body[a] = store[id][a]
            ELSE get_generation(id).status = 404

\* The request of run r is over: rejected, halted or completed.
RequestOver(r) == pc[r].at \in {"rejected", "done"}

\* C38: when a request to /generate-code is over, however it ended, the
\* file staged for it is no longer in the upload directory, unless the last
\* event of its stream is the warning of the failed deletion.
C38_NoStagedFileLeft ==
    \A r \in Runs :
        (RequestOver(r) /\ file_path[r] # "None") =>
            \/ file_path[r] \notin files
            \/ /\ events[r] # << >>
               /\ events[r][Len(events[r])].event = "warning"

\* The backend_code artifact event of a run.
BackendEvent(r) ==
    events[r][CHOOSE i \in 1..Len(events[r]) : events[r][i].event = "backend_code"]

\* C39: the framework of the backend_code artifact event of a run is the
\* framework stored on the run's record, which is the detected framework
\* when use_framework is true and "core" when it is false.
C39_FrameworkAgrees ==
    \A r \in Runs :
        Has(events[r], "backend_code") =>
            /\ BackendEvent(r).data.framework = ReadBack(r, "framework")
            /\ BackendEvent(r).data.framework = record[r]["framework"]
            /\ ReadBack(r, "framework") =
                  IF ConfigOf(r).data.use_framework THEN ConfigOf(r).data.framework
                  ELSE "core"

\* A run whose stack decision is fastapi without framework use has emitted
\* its backend_code event: the event and the record say "core".
C39_Witness ==
    \E r \in Runs :
        /\ Has(events[r], "backend_code")
        /\ ConfigOf(r).data.framework = "fastapi"
        /\ ~ConfigOf(r).data.use_framework
        /\ BackendEvent(r).data.framework = "core"
        /\ ReadBack(r, "framework") = "core"

====
